---------------------------- MODULE Spec2Model ----------------------------
(***************************************************************************)
(* Knowledge-Graph-Kit: the graph storage and query engine of app/crud.py  *)
(* over the tables of app/database.py, the property schemas of             *)
(* app/models.py and the embedding index of app/vector_store.py.           *)
(*                                                                         *)
(* Strings that the code inspects character by character (tags, searched   *)
(* text fields, the JSON text of a row) are sequences of code points.      *)
(***************************************************************************)
EXTENDS Integers, Sequences, FiniteSets, TLC

\* ------------------------------------------------------------------ bounds
MaxNodes == 2       \* node ids handed out by create_node
MaxEdges == 2       \* edge ids handed out by create_edge
MaxClock == 1       \* ticks of datetime.now()
MaxDepth == 2       \* largest depth argument of get_connected_nodes
BfsNodes == 3       \* nodes of the graphs get_connected_nodes is run on
BfsEdges == 2       \* edges of the graphs get_connected_nodes is run on
MaxCallers == 2     \* callers inside update_node at the same time

NodeIds == 1..MaxNodes
EdgeIds == 1..MaxEdges

\* ------------------------------------------------------------ text values
RECURSIVE Concat(_)
Concat(ss) == IF ss = <<>> THEN <<>> ELSE Head(ss) \o Concat(Tail(ss))

RECURSIVE Join(_, _)
Join(sep, ss) ==
    IF ss = <<>> THEN <<>>
    ELSE IF Len(ss) = 1 THEN ss[1]
    ELSE ss[1] \o sep \o Join(sep, Tail(ss))

Range(f) == {f[i] : i \in DOMAIN f}

\* str.lower() on one code point and on a string (ASCII letters)
LowerChar(c) == IF c >= 65 /\ c <= 90 THEN c + 32 ELSE c
Lower(s) == [i \in 1..Len(s) |-> LowerChar(s[i])]

\* Python's `sub in text` for strings
Contains(text, sub) ==
    \E i \in 1..(Len(text) - Len(sub) + 1) : SubSeq(text, i, i + Len(sub) - 1) = sub

\* Python's ordering of str: code point by code point, a prefix first
RECURSIVE StrLess(_, _)
StrLess(a, b) ==
    IF b = <<>> THEN FALSE
    ELSE IF a = <<>> THEN TRUE
    ELSE IF Head(a) # Head(b) THEN Head(a) < Head(b)
    ELSE StrLess(Tail(a), Tail(b))

\* sorted(list(S)) for a set S of strings
RECURSIVE Sorted(_)
Sorted(S) ==
    IF S = {} THEN <<>>
    ELSE LET m == CHOOSE x \in S : \A y \in S \ {x} : StrLess(x, y)
         IN  <<m>> \o Sorted(S \ {m})

\* ------------------------------------------------------- property values
\* One JSON-compatible value: a string, a list of strings, a datetime, null
\* or a map.  c = FALSE marks a datetime given in a form that validation
\* accepts and serialises differently (an offset "+00:00" instead of "Z").
Str(s)   == [t |-> "str",  s |-> s,    l |-> <<>>, n |-> 0, c |-> TRUE]
List(l)  == [t |-> "list", s |-> <<>>, l |-> l,    n |-> 0, c |-> TRUE]
Dt(n)    == [t |-> "dt",   s |-> <<>>, l |-> <<>>, n |-> n, c |-> TRUE]
DtRaw(n) == [t |-> "dt",   s |-> <<>>, l |-> <<>>, n |-> n, c |-> FALSE]
None     == [t |-> "none", s |-> <<>>, l |-> <<>>, n |-> 0, c |-> TRUE]
EmptyMap == [t |-> "map",  s |-> <<>>, l |-> <<>>, n |-> 0, c |-> TRUE]

\* literals of app/models.py as code points
s_todo        == <<116,111,100,111>>
s_in_progress == <<105,110,95,112,114,111,103,114,101,115,115>>
s_in_review   == <<105,110,95,114,101,118,105,101,119>>
s_cancelled   == <<99,97,110,99,101,108,108,101,100>>
s_done        == <<100,111,110,101>>
s_active      == <<97,99,116,105,118,101>>
s_archived    == <<97,114,99,104,105,118,101,100>>

KeyText(k) ==
    CASE k = "description" -> <<100,101,115,99,114,105,112,116,105,111,110>>
      [] k = "status"      -> <<115,116,97,116,117,115>>
      [] k = "tags"        -> <<116,97,103,115>>
      [] k = "created_at"  -> <<99,114,101,97,116,101,100,95,97,116>>
      [] k = "modified_at" -> <<109,111,100,105,102,105,101,100,95,97,116>>
      [] k = "due_date"    -> <<100,117,101,95,100,97,116,101>>
      [] k = "title"       -> <<116,105,116,108,101>>
      [] k = "content"     -> <<99,111,110,116,101,110,116>>
      [] k = "name"        -> <<110,97,109,101>>
      [] k = "metadata"    -> <<109,101,116,97,100,97,116,97>>

\* --------------------------------------------------------------- schemas
AnyNode == {"Task", "Note", "Person", "Project"}

Field(name, kind, required) == [name |-> name, kind |-> kind, required |-> required]

TaskProperties ==
    << Field("description", "str", TRUE),
       Field("status", "task_status", FALSE),
       Field("tags", "tags", FALSE),
       Field("created_at", "dt", FALSE),
       Field("modified_at", "dt", FALSE),
       Field("due_date", "optdt", FALSE) >>

NoteProperties ==
    << Field("title", "str", TRUE),
       Field("content", "str", TRUE),
       Field("tags", "tags", FALSE),
       Field("created_at", "dt", FALSE),
       Field("modified_at", "dt", FALSE) >>

PersonProperties ==
    << Field("name", "str", TRUE),
       Field("tags", "tags", FALSE),
       Field("metadata", "map", FALSE),
       Field("created_at", "dt", FALSE),
       Field("modified_at", "dt", FALSE) >>

ProjectProperties ==
    << Field("name", "str", TRUE),
       Field("description", "str", TRUE),
       Field("tags", "tags", FALSE),
       Field("status", "project_status", FALSE),
       Field("created_at", "dt", FALSE),
       Field("modified_at", "dt", FALSE) >>

PROPERTIES_MODELS ==
    [Task |-> TaskProperties, Note |-> NoteProperties,
     Person |-> PersonProperties, Project |-> ProjectProperties]

TaskStatus == {s_todo, s_in_progress, s_in_review, s_cancelled, s_done}
ProjectStatus == {s_active, s_archived}

\* an element handed in where a str is expected: an int, written as a code
\* point no string holds
not_a_str == <<0 - 1>>
IsStr(s) == \A i \in DOMAIN s : s[i] >= 0

\* what a field of the given kind accepts
Accepts(kind, v) ==
    CASE kind = "str"            -> v.t = "str"
      [] kind = "task_status"    -> v.t = "str" /\ v.s \in TaskStatus
      [] kind = "project_status" -> v.t = "str" /\ v.s \in ProjectStatus
      [] kind = "tags"           -> v.t = "list" /\ \A i \in DOMAIN v.l : IsStr(v.l[i])
      [] kind = "dt"             -> v.t = "dt"
      [] kind = "optdt"          -> v.t \in {"dt", "none"}
      [] kind = "map"            -> v.t = "map"

\* the default of a field left out (default_factory reads the clock)
DefaultOf(kind, clock) ==
    CASE kind = "task_status"    -> Str(s_todo)
      [] kind = "project_status" -> Str(s_active)
      [] kind = "tags"           -> List(<<>>)
      [] kind = "dt"             -> Dt(clock)
      [] kind = "optdt"          -> None
      [] kind = "map"            -> EmptyMap

FieldNames(model) == {model[i].name : i \in DOMAIN model}
FieldOf(model, k) == CHOOSE f \in Range(model) : f.name = k

\* a model that accepts whatever it is given
ValidationError_never(node_type, properties) == FALSE

\* PropertiesModel(**properties) raises ValidationError
ValidationError(node_type, properties) ==
    LET model == PROPERTIES_MODELS[node_type]
    IN  \E f \in Range(model) :
          IF f.name \in DOMAIN properties
            THEN ~Accepts(f.kind, properties[f.name])
            ELSE f.required

\* model_dump(mode="json") of one value: a datetime comes out in ISO form
DumpValue(v) == IF v.t = "dt" THEN Dt(v.n) ELSE v

\* PropertiesModel(**properties).model_dump(mode="json"): the model's fields
\* only (other keys are ignored), defaults filled in
model_dump(node_type, properties, clock) ==
    LET model == PROPERTIES_MODELS[node_type]
    IN  [k \in FieldNames(model) |->
            IF k \in DOMAIN properties
              THEN DumpValue(properties[k])
              ELSE DefaultOf(FieldOf(model, k).kind, clock)]

\* ------------------------------------------------- the JSON text of a row
\* json.dumps (the JSON column's serializer, ensure_ascii) of one character
HexDigit(d) == IF d < 10 THEN 48 + d ELSE 87 + d
EscapeChar(c) ==
    CASE c = 34 -> <<92, 34>>
      [] c = 92 -> <<92, 92>>
      [] c = 8  -> <<92, 98>>
      [] c = 9  -> <<92, 116>>
      [] c = 10 -> <<92, 110>>
      [] c = 12 -> <<92, 102>>
      [] c = 13 -> <<92, 114>>
      [] OTHER  ->
           IF c >= 32 /\ c <= 126 THEN <<c>>
           ELSE <<92, 117, HexDigit((c \div 4096) % 16), HexDigit((c \div 256) % 16),
                  HexDigit((c \div 16) % 16), HexDigit(c % 16)>>

JsonString(s) == <<34>> \o Concat([i \in 1..Len(s) |-> EscapeChar(s[i])]) \o <<34>>

RECURSIVE Digits(_)
Digits(n) == IF n < 10 THEN <<48 + n>> ELSE Digits(n \div 10) \o <<48 + (n % 10)>>

\* the serialised form of the instant of clock tick n
IsoText(n) == <<84>> \o Digits(n) \o <<90>>

JsonValue(v) ==
    CASE v.t = "str"  -> JsonString(v.s)
      [] v.t = "list" -> <<91>> \o Join(<<44, 32>>, [i \in 1..Len(v.l) |-> JsonString(v.l[i])]) \o <<93>>
      [] v.t = "dt"   -> JsonString(IsoText(v.n))
      [] v.t = "none" -> <<110, 117, 108, 108>>
      [] v.t = "map"  -> <<123, 125>>

\* NodeModel.properties.cast(String): the stored JSON text of a node's
\* properties, keys in the order model_dump wrote them
JsonText(node_type, properties) ==
    LET model == PROPERTIES_MODELS[node_type]
        item(i) == JsonString(KeyText(model[i].name)) \o <<58, 32>>
                     \o JsonValue(properties[model[i].name])
    IN  <<123>> \o Join(<<44, 32>>, [i \in 1..Len(model) |-> item(i)]) \o <<125>>

\* SQLite's LIKE: % any run, _ any one character, ASCII letters without case
RECURSIVE LikeAt(_, _, _, _)
LikeAt(p, i, t, j) ==
    IF i > Len(p) THEN j > Len(t)
    ELSE IF p[i] = 37 THEN \E k \in j..(Len(t) + 1) : LikeAt(p, i + 1, t, k)
    ELSE /\ j <= Len(t)
         /\ (p[i] = 95 \/ LowerChar(p[i]) = LowerChar(t[j]))
         /\ LikeAt(p, i + 1, t, j + 1)

Like(text, pattern) == LikeAt(pattern, 1, text, 1)

\* ------------------------------------------------------------------ state
VARIABLES
    nodes,       \* table "nodes": id -> [type, properties]
    edges,       \* table "edges": id -> [source_id, target_id, label]
    uuid_nodes,  \* node ids issued so far (uuid4 never repeats)
    uuid_edges,  \* edge ids issued so far
    now,         \* datetime.now()
    index,       \* ids held by the vector store's collection
    vs_up,       \* the collection answers calls (FALSE: every call on it raises)
    txn,         \* per caller: an update_node between its read and its commit
    last,        \* the last call: its name, arguments, outcome and index calls
    bfs          \* get_connected_nodes in progress: queue, visited, connected

vars == <<nodes, edges, uuid_nodes, uuid_edges, now, index, vs_up, txn, last, bfs>>

Empty == [x \in {} |-> 0]

\* the callers that may be inside update_node at the same time, each with a
\* session of its own
Callers == 1..MaxCallers
NoTxn == [pc |-> "idle", node_id |-> 0, properties |-> Empty, db_node |-> Empty,
          raised |-> ""]

Idle == [pc |-> "idle", node_id |-> 0, label |-> [some |-> FALSE, v |-> <<>>], depth |-> 0,
         queue |-> <<>>, visited |-> {}, connected |-> <<>>, enqueued |-> <<>>]

\* entries of the call log: db.commit(), the bulk delete of a node's edges (n rows)
\* and the calls to the vector store
Commit == [m |-> "commit", id |-> 0, n |-> 0]
DeleteEdges(node_id, n) == [m |-> "delete_edges", id |-> node_id, n |-> n]
Vs(method, id) == [m |-> method, id |-> id, n |-> 0]
VsMethods == {"vs.add_node", "vs.update_node", "vs.delete_node"}

Call(op, raised, ret, calls) ==
    [op |-> op, raised |-> raised, ret |-> ret, calls |-> calls]

Init ==
    /\ nodes = Empty
    /\ edges = Empty
    /\ uuid_nodes = 0
    /\ uuid_edges = 0
    /\ now = 0
    /\ index = {}
    /\ vs_up = TRUE
    /\ txn = [c \in Callers |-> NoTxn]
    /\ last = Call("init", "", <<>>, <<>>)
    /\ bfs = Idle

\* ------------------------------------------------------------ vector store
\* VectorStore.add_node / update_node / delete_node on the collection; an
\* exception of the collection is caught and logged, the collection unchanged
vs_add_node(ix, id) == IF vs_up THEN ix \cup {id} ELSE ix
vs_update_node(ix, id) == ix
\* a delete_node that leaves the collection as it is
vs_delete_node_kept(ix, id) == ix

vs_delete_node(ix, id) == IF vs_up THEN ix \ {id} ELSE ix

\* ------------------------------------------------------------- operations
Restrict(f, S) == [x \in S |-> f[x]]

\* dict.copy() then dict.update(other)
DictUpdate(d, other) ==
    [k \in DOMAIN d \cup DOMAIN other |-> IF k \in DOMAIN other THEN other[k] ELSE d[k]]

\* all orders in which the database may yield the rows of a set
RECURSIVE Orders(_)
Orders(S) ==
    IF S = {} THEN {<<>>}
    ELSE UNION {{<<x>> \o rest : rest \in Orders(S \ {x})} : x \in S}

create_node(node_type, properties) ==
    /\ bfs.pc = "idle"
    /\ UNCHANGED <<vs_up, txn>>
    /\ IF ValidationError(node_type, properties)
         THEN /\ last' = Call("create_node", "ValidationError", <<>>, <<>>)
              /\ UNCHANGED <<nodes, edges, uuid_nodes, uuid_edges, now, index, bfs>>
         ELSE /\ uuid_nodes < MaxNodes
              /\ LET id == uuid_nodes + 1
                     node == [type |-> node_type,
                              properties |-> model_dump(node_type, properties, now)]
                 IN  /\ nodes' = [x \in DOMAIN nodes \cup {id} |->
                                     IF x = id THEN node ELSE nodes[x]]
                     /\ uuid_nodes' = id
                     /\ index' = vs_add_node(index, id)
                     /\ last' = Call("create_node", "", [id |-> id, node |-> node], <<Commit, Vs("vs.add_node", id)>>)
              /\ UNCHANGED <<edges, uuid_edges, now, bfs>>

\* get_nodes_by_ids that validates each row again before returning it, so
\* that the timestamps it reports are those of the read
get_nodes_by_ids_revalidated(node_ids) ==
    /\ bfs.pc = "idle"
    /\ UNCHANGED <<vs_up, txn>>
    /\ LET rows == node_ids \cap DOMAIN nodes
           row(id) == [id |-> id, type |-> nodes[id].type,
                       properties |-> DictUpdate(nodes[id].properties,
                                                 [modified_at |-> Dt(now)])]
       IN  \E order \in Orders(rows) :
              last' = Call("get_nodes_by_ids", "",
                           [i \in DOMAIN order |-> row(order[i])], <<>>)
    /\ UNCHANGED <<nodes, edges, uuid_nodes, uuid_edges, now, index, bfs>>

\* the rows whose id is IN node_ids, as dictionaries, in the order the
\* database yields them
get_nodes_by_ids(node_ids) ==
    /\ bfs.pc = "idle"
    /\ UNCHANGED <<vs_up, txn>>
    /\ LET rows == node_ids \cap DOMAIN nodes
           row(id) == [id |-> id, type |-> nodes[id].type,
                       properties |-> nodes[id].properties]
       IN  \E order \in Orders(rows) :
              last' = Call("get_nodes_by_ids", "",
                           [i \in DOMAIN order |-> row(order[i])], <<>>)
    /\ UNCHANGED <<nodes, edges, uuid_nodes, uuid_edges, now, index, bfs>>

\* update_node that merges the wrong way round: stored values win over supplied ones
update_node_stored_wins(node_id, properties) ==
    /\ bfs.pc = "idle"
    /\ UNCHANGED <<vs_up, txn>>
    /\ IF node_id \notin DOMAIN nodes
         THEN /\ last' = Call("update_node", "ValueError", <<>>, <<>>)
              /\ UNCHANGED <<nodes, edges, uuid_nodes, uuid_edges, now, index, bfs>>
         ELSE LET db_node == nodes[node_id]
                  updated_properties ==
                      DictUpdate(DictUpdate(properties, db_node.properties),
                                 [modified_at |-> Dt(now)])
              IN  IF ValidationError(db_node.type, updated_properties)
                    THEN /\ last' = Call("update_node", "ValidationError", <<>>, <<>>)
                         /\ UNCHANGED <<nodes, edges, uuid_nodes, uuid_edges, now, index, bfs>>
                    ELSE LET validated_properties ==
                                 model_dump(db_node.type, updated_properties, now)
                         IN  /\ nodes' = [nodes EXCEPT ![node_id].properties = validated_properties]
                             /\ index' = vs_update_node(index, node_id)
                             /\ last' = Call("update_node", "",
                                             [id |-> node_id,
                                              node |-> [type |-> db_node.type,
                                                        properties |-> validated_properties]],
                                             <<Commit, Vs("vs.update_node", node_id)>>)
                             /\ UNCHANGED <<edges, uuid_nodes, uuid_edges, now, bfs>>

\* update_node that writes the merged properties to the row and commits before
\* it validates them
update_node_persist_first(node_id, properties) ==
    /\ bfs.pc = "idle"
    /\ UNCHANGED <<vs_up, txn>>
    /\ IF node_id \notin DOMAIN nodes
         THEN /\ last' = Call("update_node", "ValueError", <<>>, <<>>)
              /\ UNCHANGED <<nodes, edges, uuid_nodes, uuid_edges, now, index, bfs>>
         ELSE LET db_node == nodes[node_id]
                  updated_properties ==
                      DictUpdate(DictUpdate(db_node.properties, properties),
                                 [modified_at |-> Dt(now)])
              IN  IF ValidationError(db_node.type, updated_properties)
                    THEN /\ nodes' = [nodes EXCEPT ![node_id].properties = updated_properties]
                         /\ last' = Call("update_node", "ValidationError", <<>>, <<Commit>>)
                         /\ UNCHANGED <<edges, uuid_nodes, uuid_edges, now, index, bfs>>
                    ELSE LET validated_properties ==
                                 model_dump(db_node.type, updated_properties, now)
                         IN  /\ nodes' = [nodes EXCEPT ![node_id].properties = validated_properties]
                             /\ index' = vs_update_node(index, node_id)
                             /\ last' = Call("update_node", "",
                                             [id |-> node_id,
                                              node |-> [type |-> db_node.type,
                                                        properties |-> validated_properties]],
                                             <<Commit, Vs("vs.update_node", node_id)>>)
                             /\ UNCHANGED <<edges, uuid_nodes, uuid_edges, now, bfs>>

\* update_node that returns nothing, without an error, when the node is missing
update_node_missing_silent(node_id, properties) ==
    /\ bfs.pc = "idle"
    /\ UNCHANGED <<vs_up, txn>>
    /\ IF node_id \notin DOMAIN nodes
         THEN /\ last' = Call("update_node", "", <<>>, <<>>)
              /\ UNCHANGED <<nodes, edges, uuid_nodes, uuid_edges, now, index, bfs>>
         ELSE LET db_node == nodes[node_id]
                  updated_properties ==
                      DictUpdate(DictUpdate(db_node.properties, properties),
                                 [modified_at |-> Dt(now)])
              IN  IF ValidationError(db_node.type, updated_properties)
                    THEN /\ last' = Call("update_node", "ValidationError", <<>>, <<>>)
                         /\ UNCHANGED <<nodes, edges, uuid_nodes, uuid_edges, now, index, bfs>>
                    ELSE LET validated_properties ==
                                 model_dump(db_node.type, updated_properties, now)
                         IN  /\ nodes' = [nodes EXCEPT ![node_id].properties = validated_properties]
                             /\ index' = vs_update_node(index, node_id)
                             /\ last' = Call("update_node", "",
                                             [id |-> node_id,
                                              node |-> [type |-> db_node.type,
                                                        properties |-> validated_properties]],
                                             <<Commit, Vs("vs.update_node", node_id)>>)
                             /\ UNCHANGED <<edges, uuid_nodes, uuid_edges, now, bfs>>

\* update_node that writes the type column along with the properties
update_node_retyped(node_id, properties) ==
    /\ bfs.pc = "idle"
    /\ UNCHANGED <<vs_up, txn>>
    /\ LET args == [node_id |-> node_id, properties |-> properties]
       IN
       IF node_id \notin DOMAIN nodes
         THEN /\ last' = Call("update_node", "ValueError", <<>>, <<>>)
              /\ UNCHANGED <<nodes, edges, uuid_nodes, uuid_edges, now, index, bfs>>
         ELSE LET db_node == nodes[node_id]
                  updated_properties ==
                      DictUpdate(DictUpdate(db_node.properties, properties),
                                 [modified_at |-> Dt(now)])
              IN  IF ValidationError(db_node.type, updated_properties)
                    THEN /\ last' = Call("update_node", "ValidationError", <<>>, <<>>)
                         /\ UNCHANGED <<nodes, edges, uuid_nodes, uuid_edges, now, index, bfs>>
                    ELSE LET validated_properties ==
                                 model_dump(db_node.type, updated_properties, now)
                         IN  /\ nodes' = [nodes EXCEPT ![node_id] =
                                             [type |-> "Person",
                                              properties |-> validated_properties]]
                             /\ index' = vs_update_node(index, node_id)
                             /\ last' = Call("update_node", "",
                                             [id |-> node_id,
                                              node |-> [type |-> db_node.type,
                                                        properties |-> validated_properties]],
                                             <<Commit, Vs("vs.update_node", node_id)>>)
                             /\ UNCHANGED <<edges, uuid_nodes, uuid_edges, now, bfs>>

update_node(node_id, properties) ==
    /\ bfs.pc = "idle"
    /\ UNCHANGED <<vs_up, txn>>
    /\ LET args == [node_id |-> node_id, properties |-> properties]
       IN
       IF node_id \notin DOMAIN nodes
         THEN /\ last' = Call("update_node", "ValueError", <<>>, <<>>)
              /\ UNCHANGED <<nodes, edges, uuid_nodes, uuid_edges, now, index, bfs>>
         ELSE LET db_node == nodes[node_id]
                  updated_properties ==
                      DictUpdate(DictUpdate(db_node.properties, properties),
                                 [modified_at |-> Dt(now)])
              IN  IF ValidationError(db_node.type, updated_properties)
                    THEN /\ last' = Call("update_node", "ValidationError", <<>>, <<>>)
                         /\ UNCHANGED <<nodes, edges, uuid_nodes, uuid_edges, now, index, bfs>>
                    ELSE LET validated_properties ==
                                 model_dump(db_node.type, updated_properties, now)
                         IN  /\ nodes' = [nodes EXCEPT ![node_id].properties = validated_properties]
                             /\ index' = vs_update_node(index, node_id)
                             /\ last' = Call("update_node", "",
                                             [id |-> node_id,
                                              node |-> [type |-> db_node.type,
                                                        properties |-> validated_properties]],
                                             <<Commit, Vs("vs.update_node", node_id)>>)
                             /\ UNCHANGED <<edges, uuid_nodes, uuid_edges, now, bfs>>

\* delete_node whose cascade removes the outgoing edges only
delete_node_outgoing_only(node_id) ==
    /\ bfs.pc = "idle"
    /\ UNCHANGED <<vs_up, txn>>
    /\ IF node_id \in DOMAIN nodes
         THEN /\ nodes' = Restrict(nodes, DOMAIN nodes \ {node_id})
              /\ edges' = Restrict(edges, {e \in DOMAIN edges : edges[e].source_id # node_id})
              /\ index' = vs_delete_node(index, node_id)
              /\ last' = Call("delete_node", "", TRUE,
                              <<DeleteEdges(node_id,
                                            Cardinality({e \in DOMAIN edges :
                                                           edges[e].source_id = node_id})),
                                Commit, Vs("vs.delete_node", node_id)>>)
         ELSE /\ last' = Call("delete_node", "", FALSE, <<>>)
              /\ UNCHANGED <<nodes, edges, index>>
    /\ UNCHANGED <<uuid_nodes, uuid_edges, now, bfs>>

\* delete_node that lets an exception of the collection reach its caller
delete_node_index_error_propagates(node_id) ==
    /\ bfs.pc = "idle"
    /\ UNCHANGED <<vs_up, txn>>
    /\ IF node_id \in DOMAIN nodes
         THEN /\ nodes' = Restrict(nodes, DOMAIN nodes \ {node_id})
              /\ edges' = Restrict(edges, {e \in DOMAIN edges :
                                              ~(edges[e].source_id = node_id
                                                \/ edges[e].target_id = node_id)})
              /\ index' = vs_delete_node(index, node_id)
              /\ last' = Call("delete_node", IF vs_up THEN "" ELSE "Exception", TRUE,
                              <<DeleteEdges(node_id,
                                            Cardinality({e \in DOMAIN edges :
                                                           edges[e].source_id = node_id
                                                           \/ edges[e].target_id = node_id})),
                                Commit, Vs("vs.delete_node", node_id)>>)
         ELSE /\ last' = Call("delete_node", "", FALSE, <<>>)
              /\ UNCHANGED <<nodes, edges, index>>
    /\ UNCHANGED <<uuid_nodes, uuid_edges, now, bfs>>

delete_node(node_id) ==
    /\ bfs.pc = "idle"
    /\ UNCHANGED <<vs_up, txn>>
    /\ IF node_id \in DOMAIN nodes
         THEN /\ nodes' = Restrict(nodes, DOMAIN nodes \ {node_id})
              /\ edges' = Restrict(edges, {e \in DOMAIN edges :
                                              ~(edges[e].source_id = node_id
                                                \/ edges[e].target_id = node_id)})
              /\ index' = vs_delete_node(index, node_id)
              /\ last' = Call("delete_node", "", TRUE,
                              <<DeleteEdges(node_id,
                                            Cardinality({e \in DOMAIN edges :
                                                           edges[e].source_id = node_id
                                                           \/ edges[e].target_id = node_id})),
                                Commit, Vs("vs.delete_node", node_id)>>)
         ELSE /\ last' = Call("delete_node", "", FALSE, <<>>)
              /\ UNCHANGED <<nodes, edges, index>>
    /\ UNCHANGED <<uuid_nodes, uuid_edges, now, bfs>>

\* create_edge without the test of the target node
create_edge_unchecked_target(source_id, target_id, label) ==
    /\ bfs.pc = "idle"
    /\ UNCHANGED <<vs_up, txn>>
    /\ LET args == [source_id |-> source_id, target_id |-> target_id, label |-> label]
       IN
       IF source_id \notin DOMAIN nodes
         THEN /\ last' = Call("create_edge", "ValueError: Source", <<>>, <<>>)
              /\ UNCHANGED <<edges, uuid_edges>>
       ELSE /\ uuid_edges < MaxEdges
            /\ LET id == uuid_edges + 1
               IN  /\ edges' = [x \in DOMAIN edges \cup {id} |->
                                   IF x = id THEN args ELSE edges[x]]
                   /\ uuid_edges' = id
                   /\ last' = Call("create_edge", "", id, <<Commit>>)
    /\ UNCHANGED <<nodes, uuid_nodes, now, index, bfs>>

create_edge(source_id, target_id, label) ==
    /\ bfs.pc = "idle"
    /\ UNCHANGED <<vs_up, txn>>
    /\ LET args == [source_id |-> source_id, target_id |-> target_id, label |-> label]
       IN
       IF source_id \notin DOMAIN nodes
         THEN /\ last' = Call("create_edge", "ValueError: Source", <<>>, <<>>)
              /\ UNCHANGED <<edges, uuid_edges>>
       ELSE IF target_id \notin DOMAIN nodes
         THEN /\ last' = Call("create_edge", "ValueError: Target", <<>>, <<>>)
              /\ UNCHANGED <<edges, uuid_edges>>
       ELSE /\ uuid_edges < MaxEdges
            /\ LET id == uuid_edges + 1
               IN  /\ edges' = [x \in DOMAIN edges \cup {id} |->
                                   IF x = id THEN args ELSE edges[x]]
                   /\ uuid_edges' = id
                   /\ last' = Call("create_edge", "", id, <<Commit>>)
    /\ UNCHANGED <<nodes, uuid_nodes, now, index, bfs>>

\* delete_edge that raises when no edge has the id
delete_edge_missing_raises(edge_id) ==
    /\ bfs.pc = "idle"
    /\ UNCHANGED <<vs_up, txn>>
    /\ IF edge_id \in DOMAIN edges
         THEN /\ edges' = Restrict(edges, DOMAIN edges \ {edge_id})
              /\ last' = Call("delete_edge", "", TRUE, <<Commit>>)
         ELSE /\ last' = Call("delete_edge", "ValueError", FALSE, <<>>)
              /\ UNCHANGED edges
    /\ UNCHANGED <<nodes, uuid_nodes, uuid_edges, now, index, bfs>>

delete_edge(edge_id) ==
    /\ bfs.pc = "idle"
    /\ UNCHANGED <<vs_up, txn>>
    /\ IF edge_id \in DOMAIN edges
         THEN /\ edges' = Restrict(edges, DOMAIN edges \ {edge_id})
              /\ last' = Call("delete_edge", "", TRUE, <<Commit>>)
         ELSE /\ last' = Call("delete_edge", "", FALSE, <<>>)
              /\ UNCHANGED edges
    /\ UNCHANGED <<nodes, uuid_nodes, uuid_edges, now, index, bfs>>

\* .first() takes whichever matching row the database yields first
delete_edge_by_nodes(source_id, target_id, label) ==
    /\ bfs.pc = "idle"
    /\ UNCHANGED <<vs_up, txn>>
    /\ LET args == [source_id |-> source_id, target_id |-> target_id, label |-> label]
           matching == {e \in DOMAIN edges : edges[e] = args}
       IN  IF matching # {}
             THEN \E edge_to_delete \in matching :
                    /\ edges' = Restrict(edges, DOMAIN edges \ {edge_to_delete})
                    /\ last' = Call("delete_edge_by_nodes", "", TRUE, <<Commit>>)
             ELSE /\ last' = Call("delete_edge_by_nodes", "", FALSE, <<>>)
                  /\ UNCHANGED edges
    /\ UNCHANGED <<nodes, uuid_nodes, uuid_edges, now, index, bfs>>

\* the stored edges with the given source, target and label
Matching(source_id, target_id, label) ==
    {e \in DOMAIN edges :
        edges[e] = [source_id |-> source_id, target_id |-> target_id, label |-> label]}

\* update_edge that relabels every edge between the two nodes
update_edge_any_label(source_id, target_id, old_label, new_label) ==
    /\ bfs.pc = "idle"
    /\ UNCHANGED <<vs_up, txn>>
    /\ LET found == {e \in DOMAIN edges : /\ edges[e].source_id = source_id
                                           /\ edges[e].target_id = target_id}
       IN  IF found = {}
             THEN /\ last' = Call("update_edge", "ValueError", <<>>, <<>>)
                  /\ UNCHANGED edges
             ELSE \E db_edge \in found :
                    /\ edges' = [e \in DOMAIN edges |->
                                    IF e \in found THEN [edges[e] EXCEPT !.label = new_label]
                                    ELSE edges[e]]
                    /\ last' = Call("update_edge", "",
                                    [id |-> db_edge, edge |-> edges'[db_edge]], <<Commit>>)
    /\ UNCHANGED <<nodes, uuid_nodes, uuid_edges, now, index, bfs>>

\* crud.update_edge: the edge with the triple (the first the database yields
\* when several have it) gets the new label; no such edge is a ValueError
update_edge(source_id, target_id, old_label, new_label) ==
    /\ bfs.pc = "idle"
    /\ UNCHANGED <<vs_up, txn>>
    /\ IF Matching(source_id, target_id, old_label) = {}
         THEN /\ last' = Call("update_edge", "ValueError", <<>>, <<>>)
              /\ UNCHANGED edges
         ELSE \E db_edge \in Matching(source_id, target_id, old_label) :
                /\ edges' = [edges EXCEPT ![db_edge].label = new_label]
                /\ last' = Call("update_edge", "",
                                [id |-> db_edge, edge |-> edges'[db_edge]], <<Commit>>)
    /\ UNCHANGED <<nodes, uuid_nodes, uuid_edges, now, index, bfs>>

\* direction = None
NoDirection == ""
Directions == {NoDirection, "outgoing", "incoming"}

\* get_node_edges that lists the outgoing edges and then the incoming ones
get_node_edges_concatenated(node_id, direction) ==
    /\ bfs.pc = "idle"
    /\ UNCHANGED <<vs_up, txn>>
    /\ LET outgoing == {e \in DOMAIN edges : edges[e].source_id = node_id}
           incoming == {e \in DOMAIN edges : edges[e].target_id = node_id}
       IN  \E o \in Orders(outgoing), i \in Orders(incoming) :
              last' = Call("get_node_edges", "",
                           IF direction = "outgoing" THEN o
                           ELSE IF direction = "incoming" THEN i
                           ELSE o \o i, <<>>)
    /\ UNCHANGED <<nodes, edges, uuid_nodes, uuid_edges, now, index, bfs>>

\* crud.get_node_edges: one query on the edge table, filtered by direction
get_node_edges(node_id, direction) ==
    /\ bfs.pc = "idle"
    /\ UNCHANGED <<vs_up, txn>>
    /\ LET rows == {e \in DOMAIN edges :
                      IF direction = "outgoing" THEN edges[e].source_id = node_id
                      ELSE IF direction = "incoming" THEN edges[e].target_id = node_id
                      ELSE edges[e].source_id = node_id \/ edges[e].target_id = node_id}
       IN  \E result \in Orders(rows) :
              last' = Call("get_node_edges", "", result, <<>>)
    /\ UNCHANGED <<nodes, edges, uuid_nodes, uuid_edges, now, index, bfs>>

\* ------------------------------------------ update_node, one query at a time
\* update_node up to its test of the row: the session loads the row
update_node_read(c, node_id, properties) ==
    /\ bfs.pc = "idle"
    /\ txn[c].pc = "idle"
    /\ IF node_id \notin DOMAIN nodes
         THEN /\ txn' = [txn EXCEPT ![c] = [NoTxn EXCEPT !.pc = "done",
                                                         !.node_id = node_id,
                                                         !.properties = properties,
                                                         !.raised = "ValueError"]]
              /\ last' = Call("update_node", "ValueError", <<>>, <<>>)
         ELSE /\ txn' = [txn EXCEPT ![c] = [pc |-> "read", node_id |-> node_id,
                                            properties |-> properties,
                                            db_node |-> nodes[node_id], raised |-> ""]]
              /\ last' = Call("update_node.read", "", <<>>, <<>>)
    /\ UNCHANGED <<nodes, edges, uuid_nodes, uuid_edges, now, index, vs_up, bfs>>

\* update_node from the merge to the return: the row the session loaded is
\* merged, validated and written back with the commit (an UPDATE by id; the
\* session raises StaleDataError when the row is gone)
update_node_write(c) ==
    /\ bfs.pc = "idle"
    /\ txn[c].pc = "read"
    /\ LET node_id == txn[c].node_id
           db_node == txn[c].db_node
           updated_properties ==
               DictUpdate(DictUpdate(db_node.properties, txn[c].properties),
                          [modified_at |-> Dt(now)])
           done(raised) == [txn EXCEPT ![c].pc = "done", ![c].raised = raised]
       IN  IF ValidationError(db_node.type, updated_properties)
             THEN /\ txn' = done("ValidationError")
                  /\ last' = Call("update_node", "ValidationError", <<>>, <<>>)
                  /\ UNCHANGED <<nodes, index>>
             ELSE IF node_id \notin DOMAIN nodes
               THEN /\ txn' = done("StaleDataError")
                    /\ last' = Call("update_node", "StaleDataError", <<>>, <<>>)
                    /\ UNCHANGED <<nodes, index>>
               ELSE LET validated_properties ==
                            model_dump(db_node.type, updated_properties, now)
                    IN  /\ nodes' = [nodes EXCEPT ![node_id].properties = validated_properties]
                        /\ index' = vs_update_node(index, node_id)
                        /\ txn' = done("")
                        /\ last' = Call("update_node", "",
                                        [id |-> node_id,
                                         node |-> [type |-> db_node.type,
                                                   properties |-> validated_properties]],
                                        <<Commit, Vs("vs.update_node", node_id)>>)
    /\ UNCHANGED <<edges, uuid_nodes, uuid_edges, now, vs_up, bfs>>

\* ------------------------------------------ create_edge, one query at a time
\* create_edge up to the construction of the edge: the session queries the
\* source row, then the target row, and raises when one is missing
create_edge_check(c, source_id, target_id, label) ==
    /\ bfs.pc = "idle"
    /\ txn[c].pc = "idle"
    /\ LET args == [source_id |-> source_id, target_id |-> target_id, label |-> label]
           done(raised) == [txn EXCEPT ![c] = [NoTxn EXCEPT !.pc = "done",
                                                            !.properties = args,
                                                            !.raised = raised]]
       IN  IF source_id \notin DOMAIN nodes
             THEN /\ txn' = done("ValueError: Source")
                  /\ last' = Call("create_edge", "ValueError: Source", <<>>, <<>>)
           ELSE IF target_id \notin DOMAIN nodes
             THEN /\ txn' = done("ValueError: Target")
                  /\ last' = Call("create_edge", "ValueError: Target", <<>>, <<>>)
           ELSE /\ txn' = [txn EXCEPT ![c] = [NoTxn EXCEPT !.pc = "checked",
                                                           !.properties = args]]
                /\ last' = Call("create_edge.check", "", <<>>, <<>>)
    /\ UNCHANGED <<nodes, edges, uuid_nodes, uuid_edges, now, index, vs_up, bfs>>

\* create_edge from the construction of the edge to the return: the row is
\* added and committed (the edges table declares no foreign key, so the INSERT
\* is accepted whatever rows the nodes table holds by then)
create_edge_insert(c) ==
    /\ bfs.pc = "idle"
    /\ txn[c].pc = "checked"
    /\ uuid_edges < MaxEdges
    /\ LET args == txn[c].properties
           id == uuid_edges + 1
       IN  /\ edges' = [x \in DOMAIN edges \cup {id} |->
                           IF x = id THEN args ELSE edges[x]]
           /\ uuid_edges' = id
           /\ txn' = [txn EXCEPT ![c].pc = "done"]
           /\ last' = Call("create_edge", "", id, <<Commit>>)
    /\ UNCHANGED <<nodes, uuid_nodes, now, index, vs_up, bfs>>

\* ------------------------------------------------------- semantic search
\* the rankings collection.query may deliver: ids of the collection, each once,
\* of the type asked for when one is given (the type of an id whose node is no
\* longer stored is whatever it was)
Rankings(node_type) ==
    UNION {Orders(S) :
             S \in SUBSET {id \in index :
                             (node_type.some /\ id \in DOMAIN nodes)
                                => nodes[id].type = node_type.v}}

\* VectorStore.semantic_search: results["ids"][0], the list of ids itself, or
\* [] when the collection raises
vs_semantic_search(ranked) ==
    IF vs_up THEN [shape |-> "list", ids |-> ranked]
    ELSE [shape |-> "list", ids |-> <<>>]

\* crud.get_nodes_by_ids and the re-ordering of Shared.semantic_search
Hydrate(node_ids) ==
    LET nodes_by_id == DOMAIN nodes \cap Range(node_ids)
    IN  SelectSeq(node_ids, LAMBDA id : id \in nodes_by_id)

\* Shared.semantic_search: search_results["ids"] is a subscript by a string,
\* which a list does not have
semantic_search(ranked, node_type) ==
    /\ bfs.pc = "idle"
    /\ UNCHANGED <<vs_up, txn>>
    /\ LET search_results == vs_semantic_search(ranked)
       IN  IF search_results.ids = <<>>
             THEN last' = Call("semantic_search", "", <<>>, <<>>)
             ELSE IF search_results.shape # "dict"
               THEN last' = Call("semantic_search", "TypeError", <<>>, <<>>)
               ELSE last' = Call("semantic_search", "", Hydrate(search_results.ids), <<>>)
    /\ UNCHANGED <<nodes, edges, uuid_nodes, uuid_edges, now, index, bfs>>

\* the collection starts or stops raising on every call
CollectionFlips ==
    /\ bfs.pc = "idle"
    /\ vs_up' = ~vs_up
    /\ UNCHANGED txn
    /\ last' = Call("flip", "", <<>>, <<>>)
    /\ UNCHANGED <<nodes, edges, uuid_nodes, uuid_edges, now, index, bfs>>

\* time passes between calls
Tick ==
    /\ bfs.pc = "idle"
    /\ UNCHANGED <<vs_up, txn>>
    /\ now < MaxClock
    /\ now' = now + 1
    /\ last' = Call("tick", "", <<>>, <<>>)
    /\ UNCHANGED <<nodes, edges, uuid_nodes, uuid_edges, index, bfs>>

\* ------------------------------------------------------ tags and searching
TagsOf(properties) == Range(properties["tags"].l)

\* the rows rename_tag's LIKE query yields, then those whose tag list holds old_tag
RenameTouched(old_tag) ==
    LET pattern == <<37, 34>> \o old_tag \o <<34, 37>>
        nodes_to_update ==
            {id \in DOMAIN nodes :
                Like(JsonText(nodes[id].type, nodes[id].properties), pattern)}
    IN  {id \in nodes_to_update : old_tag \in TagsOf(nodes[id].properties)}

\* rename_tag that replaces the tag in place: no set(), no sorted()
rename_tag_in_place(old_tag, new_tag) ==
    /\ bfs.pc = "idle"
    /\ UNCHANGED <<vs_up, txn>>
    /\ LET tags(id) == nodes[id].properties["tags"].l
           new_tags(id) ==
               [i \in 1..Len(tags(id)) |->
                   IF tags(id)[i] = old_tag THEN new_tag ELSE tags(id)[i]]
           updated_properties(id) ==
               DictUpdate(nodes[id].properties, [tags |-> List(new_tags(id))])
           validated_properties(id) ==
               model_dump(nodes[id].type, updated_properties(id), now)
       IN  \E touched \in {RenameTouched(old_tag)} :
             IF \E id \in touched : ValidationError(nodes[id].type, updated_properties(id))
               THEN /\ last' = Call("rename_tag", "ValidationError", <<>>, <<>>)
                    /\ UNCHANGED nodes
               ELSE /\ nodes' = [id \in DOMAIN nodes |->
                                   IF id \in touched
                                     THEN [nodes[id] EXCEPT
                                             !.properties = validated_properties(id)]
                                     ELSE nodes[id]]
                    /\ last' = Call("rename_tag", "",
                                    [id \in touched |-> validated_properties(id)],
                                    IF touched # {} THEN <<Commit>> ELSE <<>>)
    /\ UNCHANGED <<edges, uuid_nodes, uuid_edges, now, index, bfs>>

\* rename_tag that commits inside the loop, once for each node it rewrites
rename_tag_commit_each(old_tag, new_tag) ==
    /\ bfs.pc = "idle"
    /\ UNCHANGED <<vs_up, txn>>
    /\ LET tag_set(id) ==
               {IF tag = old_tag THEN new_tag ELSE tag :
                   tag \in TagsOf(nodes[id].properties)}
           new_tags(id) == Sorted(tag_set(id))
           updated_properties(id) ==
               DictUpdate(nodes[id].properties, [tags |-> List(new_tags(id))])
           validated_properties(id) ==
               model_dump(nodes[id].type, updated_properties(id), now)
           \* sorted() of a str beside an int raises TypeError
           raises(id) ==
               IF \E x \in tag_set(id), y \in tag_set(id) : IsStr(x) # IsStr(y)
                 THEN "TypeError"
               ELSE IF ValidationError(nodes[id].type, updated_properties(id))
                 THEN "ValidationError"
               ELSE ""
       IN  \E touched \in {RenameTouched(old_tag)} :
             IF \E id \in touched : raises(id) # ""
               THEN \* the session is closed with nothing committed
                    /\ \E id \in touched :
                          /\ raises(id) # ""
                          /\ last' = Call("rename_tag", raises(id), <<>>, <<>>)
                    /\ UNCHANGED nodes
               ELSE /\ nodes' = [id \in DOMAIN nodes |->
                                   IF id \in touched
                                     THEN [nodes[id] EXCEPT
                                             !.properties = validated_properties(id)]
                                     ELSE nodes[id]]
                    /\ last' = Call("rename_tag", "",
                                    [id \in touched |-> validated_properties(id)],
                                    [i \in 1..Cardinality(touched) |-> Commit])
    /\ UNCHANGED <<edges, uuid_nodes, uuid_edges, now, index, bfs>>

rename_tag(old_tag, new_tag) ==
    /\ bfs.pc = "idle"
    /\ UNCHANGED <<vs_up, txn>>
    /\ LET tag_set(id) ==
               {IF tag = old_tag THEN new_tag ELSE tag :
                   tag \in TagsOf(nodes[id].properties)}
           new_tags(id) == Sorted(tag_set(id))
           updated_properties(id) ==
               DictUpdate(nodes[id].properties, [tags |-> List(new_tags(id))])
           validated_properties(id) ==
               model_dump(nodes[id].type, updated_properties(id), now)
           \* sorted() of a str beside an int raises TypeError
           raises(id) ==
               IF \E x \in tag_set(id), y \in tag_set(id) : IsStr(x) # IsStr(y)
                 THEN "TypeError"
               ELSE IF ValidationError(nodes[id].type, updated_properties(id))
                 THEN "ValidationError"
               ELSE ""
       IN  \E touched \in {RenameTouched(old_tag)} :
             IF \E id \in touched : raises(id) # ""
               THEN \* the session is closed with nothing committed
                    /\ \E id \in touched :
                          /\ raises(id) # ""
                          /\ last' = Call("rename_tag", raises(id), <<>>, <<>>)
                    /\ UNCHANGED nodes
               ELSE /\ nodes' = [id \in DOMAIN nodes |->
                                   IF id \in touched
                                     THEN [nodes[id] EXCEPT
                                             !.properties = validated_properties(id)]
                                     ELSE nodes[id]]
                    /\ last' = Call("rename_tag", "",
                                    [id \in touched |-> validated_properties(id)],
                                    IF touched # {} THEN <<Commit>> ELSE <<>>)
    /\ UNCHANGED <<edges, uuid_nodes, uuid_edges, now, index, bfs>>

\* An optional argument: absent (None) or a value.
Absent == [some |-> FALSE, v |-> <<>>]
Some(v) == [some |-> TRUE, v |-> v]
NoType == [some |-> FALSE, v |-> ""]          \* node_type = None
\* a filter that applies whenever the argument is not None
Truthy_not_none(opt) == opt.some

\* Python truthiness of an optional string or list: None and the empty one are false
Truthy(opt) == opt.some /\ opt.v # <<>>

\* a dictionary of one string entry, passed as a value: {key: value}
Dict1(key, value) == [t |-> "map", s |-> value, l |-> <<KeyText(key)>>, n |-> 0, c |-> TRUE]

\* properties.get(key): None when the key is missing
DictGet(properties, key) ==
    IF key \in DOMAIN properties THEN properties[key] ELSE None

\* crud.get_nodes(db, node_type, **kwargs): the ids of the rows of the type
\* whose properties hold, under every keyword, a value equal to the keyword's
get_nodes(node_type, kwargs) ==
    LET all_nodes == {id \in DOMAIN nodes : node_type.some => nodes[id].type = node_type.v}
    IN  IF DOMAIN kwargs = {} THEN all_nodes
        ELSE {id \in all_nodes :
                 \A key \in DOMAIN kwargs :
                     DictGet(nodes[id].properties, key) = kwargs[key]}

\* the dictionaries get_nodes returns for a set of ids
NodeDicts(ids) ==
    {[i \in DOMAIN order |-> [id |-> order[i], type |-> nodes[order[i]].type,
                              properties |-> nodes[order[i]].properties]] :
        order \in Orders(ids)}

\* Tools.get_persons(name, tags)
get_persons(name, tags) ==
    /\ bfs.pc = "idle"
    /\ UNCHANGED <<vs_up, txn>>
    /\ LET ids == IF Truthy(name)
                    THEN get_nodes(Some("Person"), [properties |-> Dict1("name", name.v)])
                  ELSE IF Truthy(tags)
                    THEN get_nodes(Some("Person"), [tags |-> List(tags.v)])
                  ELSE get_nodes(Some("Person"), Empty)
       IN  \E result \in NodeDicts(ids) :
              last' = Call("get_persons", "", result, <<>>)
    /\ UNCHANGED <<nodes, edges, uuid_nodes, uuid_edges, now, index, bfs>>

\* note.get_notes(db, tags)
get_notes(tags) ==
    /\ bfs.pc = "idle"
    /\ UNCHANGED <<vs_up, txn>>
    /\ LET ids == IF Truthy(tags)
                    THEN get_nodes(Some("Note"), [tags |-> List(tags.v)])
                    ELSE get_nodes(Some("Note"), Empty)
       IN  \E result \in NodeDicts(ids) :
              last' = Call("get_notes", "", result, <<>>)
    /\ UNCHANGED <<nodes, edges, uuid_nodes, uuid_edges, now, index, bfs>>

\* the free-text test of search_nodes on one node, the query already lower-cased
QueryMatches(query, node) ==
    LET props == node.properties
    IN  \/ node.type = "Task" /\ Contains(Lower(props["description"].s), query)
        \/ node.type = "Note" /\ (\/ Contains(Lower(props["title"].s), query)
                                  \/ Contains(Lower(props["content"].s), query))
        \/ node.type = "Person" /\ Contains(Lower(props["name"].s), query)
        \/ node.type = "Project" /\ (\/ Contains(Lower(props["name"].s), query)
                                     \/ Contains(props["description"].s, query))

SearchResult(query, node_type, tags) ==
    LET by_type == {id \in DOMAIN nodes : node_type.some => nodes[id].type = node_type.v}
        by_tags == IF Truthy(tags)
                     THEN {id \in by_type :
                             \E tag \in Range(tags.v) : tag \in TagsOf(nodes[id].properties)}
                     ELSE by_type
    IN  IF Truthy(query)
          THEN {id \in by_tags : QueryMatches(Lower(query.v), nodes[id])}
          ELSE by_tags

search_nodes(query, node_type, tags) ==
    /\ bfs.pc = "idle"
    /\ UNCHANGED <<vs_up, txn>>
    /\ last' = Call("search_nodes", "", SearchResult(query, node_type, tags), <<>>)
    /\ UNCHANGED <<nodes, edges, uuid_nodes, uuid_edges, now, index, bfs>>

\* get_all_tags that returns the tags in descending order
AllTags_descending ==
    LET up == Sorted(UNION {TagsOf(nodes[id].properties) : id \in DOMAIN nodes})
    IN  [i \in 1..Len(up) |-> up[Len(up) + 1 - i]]

AllTags == Sorted(UNION {TagsOf(nodes[id].properties) : id \in DOMAIN nodes})

get_all_tags ==
    /\ bfs.pc = "idle"
    /\ UNCHANGED <<vs_up, txn>>
    /\ last' = Call("get_all_tags", "", AllTags, <<>>)
    /\ UNCHANGED <<nodes, edges, uuid_nodes, uuid_edges, now, index, bfs>>

\* ------------------------------------------------------- graph traversal
\* get_connected_nodes up to the loop: the depth test and the seeding
get_connected_nodes(node_id, label, depth) ==
    /\ bfs.pc = "idle"
    /\ UNCHANGED <<vs_up, txn>>
    /\ IF depth <= 0
         THEN /\ bfs' = [pc |-> "done", node_id |-> node_id, label |-> label, depth |-> depth,
                         queue |-> <<>>, visited |-> {}, connected |-> <<>>,
                         enqueued |-> <<>>]
         ELSE /\ bfs' = [pc |-> "loop", node_id |-> node_id, label |-> label, depth |-> depth,
                         queue |-> << <<node_id, 0>> >>, visited |-> {node_id},
                         connected |-> <<>>, enqueued |-> <<node_id>>]
    /\ last' = Call("get_connected_nodes", "", <<>>, <<>>)
    /\ UNCHANGED <<nodes, edges, uuid_nodes, uuid_edges, now, index>>

\* the edges the loop body fetches for the current node
EdgesTouching(current_node_id, label) ==
    {e \in DOMAIN edges :
        /\ edges[e].source_id = current_node_id \/ edges[e].target_id = current_node_id
        /\ (label.some /\ label.v # <<>>) => edges[e].label = label.v}

NeighborIds(current_node_id, label) ==
    {IF edges[e].source_id = current_node_id THEN edges[e].target_id ELSE edges[e].source_id :
        e \in EdgesTouching(current_node_id, label)}

\* the loop body with the depth test off by one (> for >=)
bfs_iteration_one_deeper ==
    /\ bfs.pc = "loop"
    /\ UNCHANGED <<vs_up, txn>>
    /\ bfs.queue # <<>>
    /\ LET current_node_id == Head(bfs.queue)[1]
           current_depth == Head(bfs.queue)[2]
       IN  IF current_depth > bfs.depth
             THEN bfs' = [bfs EXCEPT !.queue = Tail(bfs.queue)]
             ELSE LET found == NeighborIds(current_node_id, bfs.label) \cap DOMAIN nodes
                      fresh == found \ bfs.visited
                  IN  \E order \in Orders(fresh) :
                        bfs' = [bfs EXCEPT
                                  !.queue = Tail(bfs.queue)
                                              \o [i \in 1..Len(order) |->
                                                     <<order[i], current_depth + 1>>],
                                  !.visited = bfs.visited \cup fresh,
                                  !.connected = bfs.connected \o order,
                                  !.enqueued = bfs.enqueued \o order]
    /\ UNCHANGED <<nodes, edges, uuid_nodes, uuid_edges, now, index, last>>

\* the loop body without the visited test: every neighbour is recorded again
\* (the dict keeps one entry per id) and enqueued again
bfs_iteration_no_visited ==
    /\ bfs.pc = "loop"
    /\ UNCHANGED <<vs_up, txn>>
    /\ bfs.queue # <<>>
    /\ LET current_node_id == Head(bfs.queue)[1]
           current_depth == Head(bfs.queue)[2]
       IN  IF current_depth >= bfs.depth
             THEN bfs' = [bfs EXCEPT !.queue = Tail(bfs.queue)]
             ELSE LET found == NeighborIds(current_node_id, bfs.label) \cap DOMAIN nodes
                  IN  \E order \in Orders(found) :
                        bfs' = [bfs EXCEPT
                                  !.queue = Tail(bfs.queue)
                                              \o [i \in 1..Len(order) |->
                                                     <<order[i], current_depth + 1>>],
                                  !.visited = bfs.visited \cup found,
                                  !.connected = bfs.connected
                                                  \o SelectSeq(order,
                                                        LAMBDA x : x \notin Range(bfs.connected)),
                                  !.enqueued = bfs.enqueued \o order]
    /\ UNCHANGED <<nodes, edges, uuid_nodes, uuid_edges, now, index, last>>

\* one iteration of `while queue:`
bfs_iteration ==
    /\ bfs.pc = "loop"
    /\ UNCHANGED <<vs_up, txn>>
    /\ bfs.queue # <<>>
    /\ LET current_node_id == Head(bfs.queue)[1]
           current_depth == Head(bfs.queue)[2]
       IN  IF current_depth >= bfs.depth
             THEN bfs' = [bfs EXCEPT !.queue = Tail(bfs.queue)]
             ELSE LET found == NeighborIds(current_node_id, bfs.label) \cap DOMAIN nodes
                      fresh == found \ bfs.visited
                  IN  \E order \in Orders(fresh) :
                        bfs' = [bfs EXCEPT
                                  !.queue = Tail(bfs.queue)
                                              \o [i \in 1..Len(order) |->
                                                     <<order[i], current_depth + 1>>],
                                  !.visited = bfs.visited \cup fresh,
                                  !.connected = bfs.connected \o order,
                                  !.enqueued = bfs.enqueued \o order]
    /\ UNCHANGED <<nodes, edges, uuid_nodes, uuid_edges, now, index, last>>

\* the queue is empty: return list(connected_nodes.values())
bfs_return ==
    /\ bfs.pc = "loop"
    /\ UNCHANGED <<vs_up, txn>>
    /\ bfs.queue = <<>>
    /\ bfs' = [bfs EXCEPT !.pc = "done"]
    /\ last' = [last EXCEPT !.ret = bfs.connected]
    /\ UNCHANGED <<nodes, edges, uuid_nodes, uuid_edges, now, index>>

\* ----------------------------------------------------------------- inputs
str_a     == <<97>>          \* "a"
str_b     == <<98>>          \* "b"
str_Ab    == <<65, 98>>      \* "Ab"
str_quote == <<34>>          \* one double quote
str_x     == <<120>>         \* "x", no status of any type

Later == MaxClock + 5        \* an instant a caller supplies

Labels == {<<110>>, <<112>>}                     \* "n", "p"
Input(node_type, properties) == [node_type |-> node_type, properties |-> properties]

\* ---------------------------------------------- Spec: nodes and their edges
GraphCreateInputs ==
    { Input("Task", [description |-> Str(str_a)]),
      Input("Task", [status |-> Str(s_done)]) }

Next ==
    \/ \E i \in GraphCreateInputs : create_node(i.node_type, i.properties)
    \/ \E id \in NodeIds : delete_node(id)
    \/ \E s \in NodeIds, t \in NodeIds, l \in Labels : create_edge(s, t, l)
    \/ \E e \in EdgeIds : delete_edge(e)
    \/ \E s \in NodeIds, t \in NodeIds, l \in Labels : delete_edge_by_nodes(s, t, l)

Spec == Init /\ [][Next]_vars

\* ------------------------------------- PropSpec: create and update of nodes
PropCreateInputs ==
    { Input("Task", [description |-> Str(str_Ab)]),
      Input("Task", [status |-> Str(s_done)]),
      Input("Task", [description |-> Str(str_a), tags |-> Str(str_a)]),
      Input("Project", [name |-> Str(str_a), description |-> Str(str_Ab),
                        tags |-> List(<<str_b>>), nickname |-> Str(str_a)]),
      Input("Project", [name |-> Str(str_a), description |-> Str(str_Ab),
                        status |-> Str(s_done)]) }

PropUpdateInputs ==
    { [status |-> Str(s_done)],
      [status |-> Str(str_x)],
      [tags |-> Str(str_a)],
      [description |-> Str(str_b), modified_at |-> Dt(Later)],
      [due_date |-> DtRaw(Later), nickname |-> Str(str_a)] }

PropNext ==
    \/ \E i \in PropCreateInputs : create_node(i.node_type, i.properties)
    \/ \E id \in NodeIds, p \in PropUpdateInputs : update_node(id, p)
    \/ \E id \in NodeIds : create_edge(id, id, <<110>>)

PropSpec == Init /\ [][PropNext]_vars

\* ------------------------------------------------ TagSpec: tags of nodes
TagNames == {str_a, str_b, str_quote}

TagCreateInputs ==
    { Input("Note", [title |-> Str(str_a), content |-> Str(str_b),
                     tags |-> List(<<str_b, str_a>>)]),
      Input("Task", [description |-> Str(str_a), tags |-> List(<<str_quote>>)]),
      Input("Task", [description |-> Str(str_a), status |-> Str(str_x)]) }

TagUpdateInputs ==
    { [tags |-> List(<<str_a, str_a>>)],
      [status |-> Str(str_x)] }

TagNext ==
    \/ \E i \in TagCreateInputs : create_node(i.node_type, i.properties)
    \/ \E id \in NodeIds, p \in TagUpdateInputs : update_node(id, p)
    \/ \E id \in NodeIds : delete_node(id)
    \/ \E old \in TagNames, new \in TagNames : rename_tag(old, new)
    \/ get_all_tags

TagSpec == Init /\ [][TagNext]_vars

\* ------------------------------- EdgeSpec: edges addressed by their triple
EdgeUpdateInputs == { [status |-> Str(str_x)] }

\* edges are created into node 1 and as self-loops
EdgeTargets(s) == {1, s}

EdgeNext ==
    \/ \E i \in GraphCreateInputs : create_node(i.node_type, i.properties)
    \/ \E id \in NodeIds, p \in EdgeUpdateInputs : update_node(id, p)
    \/ \E s \in NodeIds, l \in Labels : \E t \in EdgeTargets(s) : create_edge(s, t, l)
    \/ \E s \in NodeIds, t \in NodeIds, old \in Labels, new \in Labels :
          update_edge(s, t, old, new)
    \/ \E id \in NodeIds, direction \in Directions : get_node_edges(id, direction)

EdgeSpec == Init /\ [][EdgeNext]_vars

\* ------------------------------- IndexSpec: the store and the collection
IndexCreateInputs ==
    { Input("Task", [description |-> Str(str_a)]),
      Input("Note", [title |-> Str(str_a), content |-> Str(str_b)]),
      Input("Task", [status |-> Str(s_done)]) }

IndexUpdateInputs == { [tags |-> List(<<str_a>>)], [status |-> Str(str_x)] }

IndexTypeArgs == {NoType, Some("Task")}

IndexNext ==
    \/ \E i \in IndexCreateInputs : create_node(i.node_type, i.properties)
    \/ \E id \in NodeIds, p \in IndexUpdateInputs : update_node(id, p)
    \/ \E id \in NodeIds : delete_node(id)
    \/ \E node_type \in IndexTypeArgs :
          \E ranked \in Rankings(node_type) : semantic_search(ranked, node_type)
    \/ CollectionFlips

IndexSpec == Init /\ [][IndexNext]_vars

\* ----------------------------- ConcSpec: update_node from several sessions
ConcCreateInputs == { Input("Task", [description |-> Str(str_a)]) }

ConcUpdateInputs ==
    { [status |-> Str(s_done)],
      [tags |-> List(<<str_a>>)],
      [status |-> Str(str_x)] }

ConcNext ==
    \/ \E i \in ConcCreateInputs : create_node(i.node_type, i.properties)
    \/ \E id \in NodeIds : delete_node(id)
    \/ \E c \in Callers, id \in NodeIds, p \in ConcUpdateInputs :
          update_node_read(c, id, p)
    \/ \E c \in Callers : update_node_write(c)

ConcSpec == Init /\ [][ConcNext]_vars

\* ------------------- RaceSpec: delete_node against create_edge, several sessions
RaceCreateInputs == { Input("Task", [description |-> Str(str_a)]) }

RaceNext ==
    \/ \E i \in RaceCreateInputs : create_node(i.node_type, i.properties)
    \/ \E id \in NodeIds : delete_node(id)
    \/ \E c \in Callers, s \in NodeIds, t \in NodeIds :
          create_edge_check(c, s, t, <<110>>)
    \/ \E c \in Callers : create_edge_insert(c)

RaceSpec == Init /\ [][RaceNext]_vars

\* --------------- StoreSpec: every writing operation, one call after another
StoreCreateInputs ==
    { Input("Task", [description |-> Str(str_a), tags |-> List(<<str_a>>)]) }

StoreUpdateInputs == { [tags |-> List(<<str_b>>)] }

StoreTags == {str_a, str_b}

\* edges are created into node 1 with label "n" and relabelled by update_edge
StoreNext ==
    \/ \E i \in StoreCreateInputs : create_node(i.node_type, i.properties)
    \/ \E id \in NodeIds, p \in StoreUpdateInputs : update_node(id, p)
    \/ \E id \in NodeIds : delete_node(id)
    \/ \E s \in NodeIds : create_edge(s, 1, <<110>>)
    \/ \E s \in NodeIds, old \in Labels : \E new \in Labels \ {old} :
          update_edge(s, 1, old, new)
    \/ \E e \in EdgeIds : delete_edge(e)
    \/ \E s \in NodeIds, l \in Labels : delete_edge_by_nodes(s, 1, l)
    \/ \E old \in StoreTags : \E new \in StoreTags \ {old} : rename_tag(old, new)

StoreSpec == Init /\ [][StoreNext]_vars

\* ------------------------- RoundSpec: nodes created and read back by id
RoundCreateInputs ==
    { Input("Task", [description |-> Str(str_a)]),
      Input("Task", [description |-> Str(str_Ab), status |-> Str(s_done),
                     tags |-> List(<<str_b, str_a>>), due_date |-> DtRaw(Later),
                     created_at |-> Dt(Later)]),
      Input("Note", [title |-> Str(str_a), content |-> Str(str_b)]),
      Input("Person", [name |-> Str(str_a), nickname |-> Str(str_b)]),
      Input("Project", [name |-> Str(str_a), description |-> Str(str_b)]),
      Input("Project", [name |-> Str(str_a)]) }

RoundNext ==
    \/ \E i \in RoundCreateInputs : create_node(i.node_type, i.properties)
    \/ \E node_ids \in SUBSET NodeIds : get_nodes_by_ids(node_ids)
    \/ Tick

RoundSpec == Init /\ [][RoundNext]_vars

\* ----------------------------- ListSpec: get_persons and get_notes
ListCreateInputs ==
    { Input("Person", [name |-> Str(str_a), tags |-> List(<<str_a, str_b>>)]),
      Input("Person", [name |-> Str(str_b), tags |-> List(<<str_a>>)]),
      Input("Person", [name |-> Str(str_a)]),
      Input("Note", [title |-> Str(str_a), content |-> Str(str_b),
                     tags |-> List(<<str_b, str_a>>)]),
      Input("Note", [title |-> Str(str_a), content |-> Str(str_b)]) }

ListNames == {Absent, Some(str_a), Some(str_b)}
ListTags == {Absent, Some(<<str_a>>), Some(<<str_a, str_b>>)}

ListNext ==
    \/ \E i \in ListCreateInputs : create_node(i.node_type, i.properties)
    \/ \E name \in ListNames, tags \in ListTags : get_persons(name, tags)
    \/ \E tags \in ListTags : get_notes(tags)

ListSpec == Init /\ [][ListNext]_vars

\* ------------------- ClockSpec: property changes while time passes
ClockCreateInputs ==
    { Input("Task", [description |-> Str(str_a), tags |-> List(<<str_a>>)]),
      Input("Note", [title |-> Str(str_a), content |-> Str(str_b)]) }

ClockUpdateInputs ==
    { [tags |-> List(<<str_b>>), modified_at |-> Dt(Later)],
      [content |-> Str(str_a)] }

ClockNext ==
    \/ \E i \in ClockCreateInputs : create_node(i.node_type, i.properties)
    \/ \E id \in NodeIds, p \in ClockUpdateInputs : update_node(id, p)
    \/ \E old \in StoreTags, new \in StoreTags : rename_tag(old, new)
    \/ Tick

ClockSpec == Init /\ [][ClockNext]_vars

\* ------------------- RenameSpec: rename_tag with a new tag of any type
RenameCreateInputs ==
    { Input("Task", [description |-> Str(str_a), tags |-> List(<<str_a>>)]),
      Input("Note", [title |-> Str(str_a), content |-> Str(str_b),
                     tags |-> List(<<str_b, str_a>>)]) }

RenameNext ==
    \/ \E i \in RenameCreateInputs : create_node(i.node_type, i.properties)
    \/ \E id \in NodeIds : delete_node(id)
    \/ \E old \in StoreTags, new \in StoreTags \cup {not_a_str} : rename_tag(old, new)

RenameSpec == Init /\ [][RenameNext]_vars

\* ------------------------------------------------ SearchSpec: search_nodes
SearchCreateInputs ==
    { Input("Task", [description |-> Str(str_Ab), tags |-> List(<<str_a>>)]),
      Input("Note", [title |-> Str(str_a), content |-> Str(str_Ab),
                     tags |-> List(<<str_b>>)]),
      Input("Person", [name |-> Str(str_Ab)]),
      Input("Project", [name |-> Str(str_a), description |-> Str(str_Ab),
                        tags |-> List(<<str_a, str_b>>)]) }

Queries == {Absent, Some(<<>>), Some(str_a), Some(str_b), Some(str_Ab), Some(str_x)}
TypeArgs == {NoType} \cup {Some(t) : t \in AnyNode}
TagArgs == {Absent, Some(<<>>), Some(<<str_a>>), Some(<<str_b, str_x>>)}

SearchNext ==
    \/ \E i \in SearchCreateInputs : create_node(i.node_type, i.properties)
    \/ \E id \in NodeIds : delete_node(id)
    \/ \E query \in Queries, node_type \in TypeArgs, tags \in TagArgs :
          search_nodes(query, node_type, tags)

SearchSpec == Init /\ [][SearchNext]_vars

\* ------------------------- BfsSpec: get_connected_nodes on a stored graph
\* the node create_node("Task", {"description": "a"}) stores at instant 0
PlainTask ==
    [type |-> "Task", properties |-> model_dump("Task", [description |-> Str(str_a)], 0)]

\* a rank of edge rows, to list each collection of edges in one order only
EdgeRank(edge) ==
    ((edge.source_id * (BfsNodes + 1)) + edge.target_id) * 2
      + (IF edge.label = <<110>> THEN 0 ELSE 1)

\* the stores the traversal is run on: BfsNodes nodes and up to BfsEdges edges
\* between them, as create_node and create_edge leave them.  The traversal
\* never reads an edge's id, so each collection of edges is taken once, its
\* edges created in rank order.
BfsInit ==
    /\ nodes = [id \in 1..BfsNodes |-> PlainTask]
    /\ \E k \in 0..BfsEdges :
         /\ edges \in [1..k -> [source_id : 1..BfsNodes, target_id : 1..BfsNodes,
                                label : Labels]]
         /\ \A i \in 1..k, j \in 1..k : i < j => EdgeRank(edges[i]) <= EdgeRank(edges[j])
    /\ uuid_nodes = BfsNodes
    /\ uuid_edges = Cardinality(DOMAIN edges)
    /\ now = 0
    /\ index = 1..BfsNodes
    /\ vs_up = TRUE
    /\ txn = [c \in Callers |-> NoTxn]
    /\ last = Call("init", "", <<>>, <<>>)
    /\ bfs = Idle

\* label arguments: None, "" and "n".  Start ids: a stored node and an id of no
\* node; the edges range over every placement around node 1.
LabelArgs == {Absent, Some(<<>>), Some(<<110>>)}
StartIds == {1, BfsNodes + 1}
Depths == (0 - 1)..MaxDepth

BfsNext ==
    \/ \E n \in StartIds, l \in LabelArgs, d \in Depths : get_connected_nodes(n, l, d)
    \/ bfs_iteration
    \/ bfs_return

BfsSpec == BfsInit /\ [][BfsNext]_vars

\* a call runs to its end: the loop is a plain while loop of one synchronous call
FairBfsSpec == BfsSpec /\ WF_vars(bfs_iteration) /\ WF_vars(bfs_return)

\* ------------- FilterSpec: search_nodes and get_connected_nodes, empty filters
FilterCreateInputs ==
    { Input("Task", [description |-> Str(str_Ab), tags |-> List(<<str_a>>)]),
      Input("Note", [title |-> Str(str_x), content |-> Str(str_b)]) }

FilterQueries == {Absent, Some(<<>>), Some(str_a)}
FilterTags == {Absent, Some(<<>>), Some(<<str_a>>)}

FilterNext ==
    \/ \E i \in FilterCreateInputs : create_node(i.node_type, i.properties)
    \/ \E s \in NodeIds, l \in Labels : \E t \in EdgeTargets(s) : create_edge(s, t, l)
    \/ \E query \in FilterQueries, tags \in FilterTags : search_nodes(query, NoType, tags)
    \/ \E n \in NodeIds, l \in LabelArgs, d \in 1..MaxDepth : get_connected_nodes(n, l, d)
    \/ bfs_iteration
    \/ bfs_return

FilterSpec == Init /\ [][FilterNext]_vars

\* ================================================================= claims

Touches(edge, n) == edge.source_id = n \/ edge.target_id = n

\* C1: create_edge(source_id, target_id, label) succeeds only if both ids are
\* ids of stored nodes; when either endpoint is missing the call raises and the
\* stored edges are exactly what they were before the call.
C1_CreateEdgeNeedsEndpoints ==
    [][\A s \in NodeIds, t \in NodeIds, l \in Labels :
          create_edge(s, t, l) =>
            /\ last'.raised = "" => (s \in DOMAIN nodes /\ t \in DOMAIN nodes)
            /\ (s \notin DOMAIN nodes \/ t \notin DOMAIN nodes) =>
                 (last'.raised # "" /\ edges' = edges)]_vars

\* a create_edge was refused for its target while edges were stored
C1_Witness ==
    /\ last.op = "create_edge"
    /\ last.raised = "ValueError: Target"
    /\ DOMAIN edges # {}

\* C2: after delete_node(n) returned true, n is no stored node, no stored edge
\* has n as source or target, and the edges that did not touch n are unchanged.
C2_DeleteNodeCascades ==
    [][\A n \in NodeIds :
          (delete_node(n) /\ last'.ret = TRUE) =>
            /\ n \notin DOMAIN nodes'
            /\ \A e \in DOMAIN edges' : ~Touches(edges'[e], n)
            /\ DOMAIN edges' \subseteq DOMAIN edges
            /\ \A e \in DOMAIN edges :
                 ~Touches(edges[e], n) => (e \in DOMAIN edges' /\ edges'[e] = edges[e])]_vars

\* a delete_node removed an edge of the node (here one that pointed at it) and
\* left another edge in the store
C2_Witness ==
    /\ last.op = "delete_node"
    /\ last.ret = TRUE
    /\ \E c \in Range(last.calls) : c.m = "delete_edges" /\ c.n >= 1
    /\ DOMAIN edges # {}

\* a label is supplied when the argument is a non-empty string
Supplied(label) == label.some /\ label.v # <<>>

\* u and v are the two ends of a stored edge that passes the label filter
Linked(u, v, label) ==
    \E e \in DOMAIN edges :
        /\ Supplied(label) => edges[e].label = label.v
        /\ \/ edges[e].source_id = u /\ edges[e].target_id = v
           \/ edges[e].source_id = v /\ edges[e].target_id = u

\* the stored nodes with a path of at most k such edges from start, and start
RECURSIVE Within(_, _, _)
Within(k, start, label) ==
    IF k = 0 THEN {start}
    ELSE LET W == Within(k - 1, start, label)
         IN  W \cup {v \in DOMAIN nodes : \E u \in W : Linked(u, v, label)}

NoRepeats(seq) == Cardinality(Range(seq)) = Len(seq)

\* C3: get_connected_nodes(start, label, depth) returns exactly the stored nodes
\* other than start whose shortest path from start, over edges taken in either
\* direction and only those with the supplied label, has length 1..depth, each
\* once; for depth <= 0 it returns nothing.
C3_ConnectedNodesWithinDepth ==
    bfs.pc = "done" =>
        /\ NoRepeats(last.ret)
        /\ Range(last.ret) =
             IF bfs.depth <= 0 THEN {}
             ELSE Within(bfs.depth, bfs.node_id, bfs.label) \ {bfs.node_id}

\* a traversal with a label filter returned a neighbour and left out a stored
\* node that an edge of another label links to the start node
C3_Witness ==
    /\ bfs.pc = "done"
    /\ Supplied(bfs.label)
    /\ last.ret # <<>>
    /\ \E v \in DOMAIN nodes \ {bfs.node_id} :
          v \notin Range(last.ret) /\ Linked(bfs.node_id, v, Absent)

\* C4: get_connected_nodes terminates on every graph and depth, no node is
\* enqueued twice, and the start node is never in the result.
C4_TraversalTerminates ==
    /\ (bfs.pc = "loop") ~> (bfs.pc = "done")
    /\ [](NoRepeats(bfs.enqueued))
    /\ [](bfs.node_id \notin Range(bfs.connected))

\* a traversal ended on a graph with a cycle through the start node, with a
\* depth larger than the cycle
C4_Witness ==
    /\ bfs.pc = "done"
    /\ bfs.depth = MaxDepth
    /\ last.ret # <<>>
    /\ \E e \in DOMAIN edges, f \in DOMAIN edges :
          /\ edges[e].source_id = bfs.node_id
          /\ edges[e].target_id # bfs.node_id
          /\ edges[f].source_id = edges[e].target_id
          /\ edges[f].target_id = bfs.node_id

\* the value of key k in a properties map, or Missing when the key is not there
Missing == [t |-> "missing", s |-> <<>>, l |-> <<>>, n |-> 0, c |-> TRUE]
Get(properties, k) == IF k \in DOMAIN properties THEN properties[k] ELSE Missing

AllKeys ==
    UNION {FieldNames(PROPERTIES_MODELS[t]) : t \in AnyNode}
      \cup UNION {DOMAIN p : p \in PropUpdateInputs}

\* everything but the properties of node id is as before
OnlyNodeChanged(id) ==
    /\ DOMAIN nodes' = DOMAIN nodes
    /\ \A other \in DOMAIN nodes \ {id} : nodes'[other] = nodes[other]
    /\ nodes'[id].type = nodes[id].type
    /\ edges' = edges

\* C5, as claimed: after update_node(id, partial) every key that is neither in
\* partial nor modified_at has its former value, every key in partial has the
\* supplied value, and no other node and no edge changed.
C5_AsClaimed ==
    [][\A id \in NodeIds, p \in PropUpdateInputs :
          (last'.op = "update_node" /\ last'.raised = "" /\ update_node(id, p)) =>
            /\ \A k \in AllKeys \ (DOMAIN p \cup {"modified_at"}) :
                 Get(nodes'[id].properties, k) = Get(nodes[id].properties, k)
            /\ \A k \in DOMAIN p : Get(nodes'[id].properties, k) = p[k]
            /\ OnlyNodeChanged(id)]_vars

\* C5, amended: after update_node(id, partial) every key that is neither in
\* partial nor modified_at has its former value; every key in partial that is a
\* field of the node type's model, modified_at aside, has the supplied value as
\* the model serialises it; modified_at is the current time; keys of partial
\* that are no field of the model are not stored; no other node and no edge
\* changed.
C5_UpdateMerges ==
    [][\A id \in NodeIds, p \in PropUpdateInputs :
          (last'.op = "update_node" /\ last'.raised = "" /\ update_node(id, p)) =>
            LET fields == FieldNames(PROPERTIES_MODELS[nodes[id].type])
            IN  /\ \A k \in AllKeys \ (DOMAIN p \cup {"modified_at"}) :
                     Get(nodes'[id].properties, k) = Get(nodes[id].properties, k)
                /\ \A k \in (DOMAIN p \cap fields) \ {"modified_at"} :
                     Get(nodes'[id].properties, k) = DumpValue(p[k])
                /\ nodes'[id].properties["modified_at"] = Dt(now)
                /\ \A k \in DOMAIN p \ fields : k \notin DOMAIN nodes'[id].properties
                /\ OnlyNodeChanged(id)]_vars

\* an update went through on a Task that keeps a status and a description set
\* earlier and now has the due date of the partial update, beside another node
\* and an edge
C5_Witness ==
    /\ last.op = "update_node"
    /\ last.raised = ""
    /\ last.ret.node.type = "Task"
    /\ last.ret.node.properties["due_date"] = Dt(Later)
    /\ last.ret.node.properties["status"] = Str(s_done)
    /\ last.ret.node.properties["description"] = Str(str_b)
    /\ Cardinality(DOMAIN nodes) = 2
    /\ DOMAIN edges # {}

\* C6: create_node and update_node given properties that fail the type's model
\* raise, leave the stored nodes and edges exactly as they were and do not call
\* the vector store.
NothingPersisted ==
    /\ last'.raised = "ValidationError"
    /\ nodes' = nodes
    /\ edges' = edges
    /\ index' = index
    /\ \A c \in Range(last'.calls) : c.m \notin VsMethods /\ c.m # "commit"

C6_ValidationFailurePersistsNothing ==
    [][/\ \A i \in PropCreateInputs :
            (create_node(i.node_type, i.properties)
               /\ ValidationError(i.node_type, i.properties)) => NothingPersisted
       /\ \A id \in NodeIds, p \in PropUpdateInputs :
            (/\ update_node(id, p)
             /\ id \in DOMAIN nodes
             /\ ValidationError(nodes[id].type, DictUpdate(nodes[id].properties, p)))
              => NothingPersisted]_vars

\* an update was refused for its properties while two nodes and an edge were stored
C6_Witness ==
    /\ last.op = "update_node"
    /\ last.raised = "ValidationError"
    /\ Cardinality(DOMAIN nodes) = 2
    /\ DOMAIN edges # {}

\* C7: every stored node's properties validate against the model of its type:
\* the model's fields and no others, every required field a string, status
\* within the type's values, tags a list.
SchemaValid(node) ==
    LET model == PROPERTIES_MODELS[node.type]
        props == node.properties
    IN  /\ DOMAIN props = FieldNames(model)
        /\ \A f \in Range(model) : f.required => props[f.name].t = "str"
        /\ node.type = "Task" => props["status"].t = "str" /\ props["status"].s \in TaskStatus
        /\ node.type = "Project" =>
             props["status"].t = "str" /\ props["status"].s \in ProjectStatus
        /\ props["tags"].t = "list"
        /\ ~ValidationError(node.type, props)

C7_StoredNodesAreValid == \A id \in DOMAIN nodes : SchemaValid(nodes[id])

\* a rename_tag rewrote the tags of a node after an update_node had set them
C7_Witness ==
    /\ last.op = "rename_tag"
    /\ last.raised = ""
    /\ \E id \in DOMAIN last.ret :
          nodes[id].type = "Task" /\ nodes[id].properties["tags"] = List(<<str_b>>)

\* the nodes whose tag list holds tag
Holders(tag) == {id \in DOMAIN nodes : tag \in TagsOf(nodes[id].properties)}

\* C8: rename_tag(old, new) modifies and returns exactly the nodes whose tag
\* list held old before the call: each of them is returned as it is now stored
\* and, when old # new, no longer holds old; every other node keeps its
\* properties and is not returned; the edges are as before.
C8_RenameReachesEveryHolder ==
    [][\A old \in TagNames, new \in TagNames :
          (last'.op = "rename_tag" /\ last'.raised = "" /\ rename_tag(old, new)) =>
            /\ DOMAIN last'.ret = Holders(old)
            /\ \A id \in Holders(old) :
                 /\ id \in DOMAIN last'.ret => last'.ret[id] = nodes'[id].properties
                 /\ old # new => old \notin TagsOf(nodes'[id].properties)
            /\ DOMAIN nodes' = DOMAIN nodes
            /\ \A id \in DOMAIN nodes \ Holders(old) : nodes'[id] = nodes[id]
            /\ edges' = edges]_vars

\* a strict ascending sequence of strings
Ascending(seq) == \A i \in 1..Len(seq), j \in 1..Len(seq) : i < j => StrLess(seq[i], seq[j])

\* C9: after rename_tag(old, new) the tag list of every modified node is the set
\* of its former tags with old replaced by new, without duplicates and in
\* ascending order; tags [old, existing] renamed old -> existing become exactly
\* [existing].
C9_RenamedTagsAreSortedSet ==
    [][\A old \in TagNames, new \in TagNames :
          (last'.op = "rename_tag" /\ last'.raised = "" /\ rename_tag(old, new)) =>
            \A id \in DOMAIN nodes :
              (id \in DOMAIN last'.ret \/ nodes'[id] # nodes[id]) =>
                LET before == TagsOf(nodes[id].properties)
                    after == nodes'[id].properties["tags"].l
                IN  /\ old \in before
                    /\ Range(after) = (before \ {old}) \cup {new}
                    /\ NoRepeats(after)
                    /\ Ascending(after)
                    /\ before \subseteq {old, new} => after = <<new>>]_vars

\* a rename left two tags in an order other than the stored one, or merged two
\* tags of a Note into one
C9_Witness ==
    /\ last.op = "rename_tag"
    /\ last.raised = ""
    /\ \E id \in DOMAIN last.ret :
          /\ nodes[id].type = "Note"
          /\ nodes[id].properties["tags"] \in {List(<<str_quote, str_a>>), List(<<str_a>>)}

\* the fields of each node type that the free-text query is matched against
SearchFields(node_type) ==
    IF node_type = "Task" THEN {"description"}
    ELSE IF node_type = "Note" THEN {"title", "content"}
    ELSE IF node_type = "Person" THEN {"name"}
    ELSE {"name", "description"}

\* node passes the filters that are supplied, an empty query or tag list
\* counting as omitted and letter case not counting in the query
PassesFilters(node, query, node_type, tags) ==
    /\ node_type.some => node.type = node_type.v
    /\ Truthy(tags) => Range(tags.v) \cap TagsOf(node.properties) # {}
    /\ Truthy(query) =>
         \E f \in SearchFields(node.type) :
            Contains(Lower(node.properties[f].s), Lower(query.v))

\* C10: search_nodes(query, type, tags) returns exactly the stored nodes that
\* pass every supplied filter: type equal, at least one tag shared, the query a
\* substring of one of the type's search fields; an omitted filter excludes
\* nothing.
C10_SearchReturnsExactlyMatches ==
    [][\A query \in Queries, node_type \in TypeArgs, tags \in TagArgs :
          (last'.op = "search_nodes" /\ search_nodes(query, node_type, tags)) =>
            last'.ret = {id \in DOMAIN nodes :
                           PassesFilters(nodes[id], query, node_type, tags)}]_vars

\* node with the text of its search fields in lower case
LowerFields(node) ==
    [node EXCEPT !.properties =
        [k \in DOMAIN node.properties |->
            IF k \in SearchFields(node.type)
              THEN Str(Lower(node.properties[k].s))
              ELSE node.properties[k]]]

\* C11: query matching in search_nodes does not depend on letter case: a node
\* is returned for a query exactly when it is returned for any query that
\* differs only in case, and exactly when it would be with its search fields
\* stored in lower case.
C11_QueryIgnoresCase ==
    [][\A query \in Queries, node_type \in TypeArgs, tags \in TagArgs :
          (last'.op = "search_nodes" /\ Truthy(query)
             /\ search_nodes(query, node_type, tags)) =>
            \A id \in DOMAIN nodes, other \in Queries :
               (Truthy(other) /\ Lower(other.v) = Lower(query.v)) =>
                  /\ id \in last'.ret <=> id \in SearchResult(other, node_type, tags)
                  /\ id \in last'.ret <=>
                       /\ id \in SearchResult(Absent, node_type, tags)
                       /\ QueryMatches(Lower(other.v), LowerFields(nodes[id]))]_vars

\* a delete that found nothing: false, no error, the store as it was
DeletedNothing ==
    /\ last'.raised = ""
    /\ last'.ret = FALSE
    /\ nodes' = nodes
    /\ edges' = edges

\* a delete on a target that is not stored returns false and changes nothing
DeleteOfMissing ==
    /\ \A id \in NodeIds :
          (last'.op = "delete_node" /\ delete_node(id) /\ id \notin DOMAIN nodes)
             => DeletedNothing
    /\ \A e \in EdgeIds :
          (last'.op = "delete_edge" /\ delete_edge(e) /\ e \notin DOMAIN edges)
             => DeletedNothing
    /\ \A s \in NodeIds, t \in NodeIds, l \in Labels :
          (last'.op = "delete_edge_by_nodes" /\ delete_edge_by_nodes(s, t, l)
             /\ Matching(s, t, l) = {}) => DeletedNothing

\* C12, as claimed: a delete on a target that is not stored returns false
\* without raising and changes no node and no edge; so after any delete that
\* returned true its target is gone and the same delete would return false.
C12_AsClaimed ==
    [][/\ DeleteOfMissing
       /\ \A id \in NodeIds :
            (last'.op = "delete_node" /\ delete_node(id) /\ last'.ret = TRUE)
               => id \notin DOMAIN nodes'
       /\ \A e \in EdgeIds :
            (last'.op = "delete_edge" /\ delete_edge(e) /\ last'.ret = TRUE)
               => e \notin DOMAIN edges'
       /\ \A s \in NodeIds, t \in NodeIds, l \in Labels :
            (last'.op = "delete_edge_by_nodes" /\ delete_edge_by_nodes(s, t, l)
               /\ last'.ret = TRUE) => Matching(s, t, l)' = {}]_vars

\* C12, amended: a delete on a target that is not stored returns false without
\* raising and changes no node and no edge; after delete_node or delete_edge
\* returned true the target is gone, and delete_edge_by_nodes that returned
\* true removed exactly one of the edges with the triple, so it returns false
\* once none is left.
C12_DeleteOfMissingIsFalse ==
    [][/\ DeleteOfMissing
       /\ \A id \in NodeIds :
            (last'.op = "delete_node" /\ delete_node(id) /\ last'.ret = TRUE)
               => id \notin DOMAIN nodes'
       /\ \A e \in EdgeIds :
            (last'.op = "delete_edge" /\ delete_edge(e) /\ last'.ret = TRUE)
               => e \notin DOMAIN edges'
       /\ \A s \in NodeIds, t \in NodeIds, l \in Labels :
            (last'.op = "delete_edge_by_nodes" /\ delete_edge_by_nodes(s, t, l)
               /\ last'.ret = TRUE) =>
                 \E e \in Matching(s, t, l) :
                    /\ Matching(s, t, l)' = Matching(s, t, l) \ {e}
                    /\ edges' = Restrict(edges, DOMAIN edges \ {e})]_vars

\* a delete found nothing to delete while nodes and edges were stored
C12_Witness ==
    /\ last.op \in {"delete_node", "delete_edge", "delete_edge_by_nodes"}
    /\ last.raised = ""
    /\ last.ret = FALSE
    /\ DOMAIN nodes # {}
    /\ DOMAIN edges # {}

\* an update that found nothing: a not-found error, the store as it was
NotFound ==
    /\ last'.raised = "ValueError"
    /\ nodes' = nodes
    /\ edges' = edges
    /\ index' = index

\* C13: update_node on an id with no stored node, and update_edge on a triple
\* no stored edge matches, raise a not-found error and change no node and no
\* edge.
C13_UpdateOfMissingRaises ==
    [][/\ \A id \in NodeIds, p \in EdgeUpdateInputs :
            (last'.op = "update_node" /\ update_node(id, p) /\ id \notin DOMAIN nodes)
               => NotFound
       /\ \A s \in NodeIds, t \in NodeIds, old \in Labels, new \in Labels :
            (last'.op = "update_edge" /\ update_edge(s, t, old, new)
               /\ Matching(s, t, old) = {}) => NotFound]_vars

\* an update_node named an id that is not stored while a node and an edge were
C13_Witness ==
    /\ last.op = "update_node"
    /\ last.raised = "ValueError"
    /\ DOMAIN nodes # {}
    /\ DOMAIN edges # {}

\* C14: update_edge(source_id, target_id, old_label, new_label) on a matching
\* edge changes only that edge's label: the returned edge is the stored one,
\* with the id, source and target it had and the new label; that edge is then
\* found under the new label and, when the labels differ, not under the old
\* one; no other edge and no node changes.
C14_UpdateEdgeChangesOnlyLabel ==
    [][\A s \in NodeIds, t \in NodeIds, old \in Labels, new \in Labels :
          (last'.op = "update_edge" /\ update_edge(s, t, old, new)
             /\ Matching(s, t, old) # {}) =>
            /\ last'.raised = ""
            /\ last'.ret.id \in Matching(s, t, old)
            /\ last'.ret.edge = edges'[last'.ret.id]
            /\ last'.ret.edge = [source_id |-> s, target_id |-> t, label |-> new]
            /\ last'.ret.id \in Matching(s, t, new)'
            /\ old # new => last'.ret.id \notin Matching(s, t, old)'
            /\ DOMAIN edges' = DOMAIN edges
            /\ \A e \in DOMAIN edges \ {last'.ret.id} : edges'[e] = edges[e]
            /\ nodes' = nodes]_vars

\* an edge got another label while a second edge between the same nodes kept its own
C14_Witness ==
    /\ last.op = "update_edge"
    /\ last.raised = ""
    /\ \E e \in DOMAIN edges \ {last.ret.id} :
          /\ edges[e].source_id = last.ret.edge.source_id
          /\ edges[e].target_id = last.ret.edge.target_id
          /\ edges[e].label # last.ret.edge.label

\* C15: get_node_edges(node_id, direction) returns exactly the stored edges with
\* source_id = node_id for 'outgoing', with target_id = node_id for 'incoming',
\* and the union of the two for no direction, each edge once (a self-loop too);
\* a node with no edges yields the empty list.
C15_NodeEdgesByDirection ==
    [][\A id \in NodeIds, direction \in Directions :
          (last'.op = "get_node_edges" /\ get_node_edges(id, direction)) =>
            LET outgoing == {e \in DOMAIN edges : edges[e].source_id = id}
                incoming == {e \in DOMAIN edges : edges[e].target_id = id}
            IN  /\ NoRepeats(last'.ret)
                /\ direction = "outgoing" => Range(last'.ret) = outgoing
                /\ direction = "incoming" => Range(last'.ret) = incoming
                /\ direction = NoDirection => Range(last'.ret) = outgoing \cup incoming
                /\ outgoing \cup incoming = {} => last'.ret = <<>>]_vars

\* both directions were asked of a node with a self-loop and another edge,
\* and two edges came back
C15_Witness ==
    /\ last.op = "get_node_edges"
    /\ Len(last.ret) = 2
    /\ \E e \in Range(last.ret) : edges[e].source_id = edges[e].target_id
    /\ \E e \in Range(last.ret) : edges[e].source_id # edges[e].target_id

\* C16: get_all_tags returns the union of the tag lists of the stored nodes,
\* every tag once, in ascending order; it is computed from the store as it is
\* at the call, so a tag no node holds any more is not in it.
C16_AllTagsSortedUnion ==
    [][(last'.op = "get_all_tags" /\ get_all_tags) =>
          /\ last'.raised = ""
          /\ Range(last'.ret) = UNION {Range(nodes[id].properties["tags"].l) : id \in DOMAIN nodes}
          /\ \A tag \in Range(last'.ret) : Holders(tag) # {}
          /\ NoRepeats(last'.ret)
          /\ Ascending(last'.ret)]_vars

\* two tags came back, one of them held by both of two stored nodes
C16_Witness ==
    /\ last.op = "get_all_tags"
    /\ Len(last.ret) = 2
    /\ Cardinality(DOMAIN nodes) = 2
    /\ \E tag \in Range(last.ret) : Holders(tag) = DOMAIN nodes

\* C17: semantic_search returns the stored nodes for the ranked id list the
\* collection delivers, in the order of that list, leaving out every id with no
\* stored node.
C17_SemanticSearchKeepsRanking ==
    [][\A node_type \in IndexTypeArgs :
          \A ranked \in Rankings(node_type) :
             (last'.op = "semantic_search" /\ vs_up
                /\ semantic_search(ranked, node_type)) =>
               /\ last'.raised = ""
               /\ last'.ret = SelectSeq(ranked, LAMBDA id : id \in DOMAIN nodes)]_vars

\* the call log holds the index call for the node, after a commit
IndexedAfterCommit(calls, method, id) ==
    \E i \in 1..Len(calls), j \in 1..Len(calls) :
       i < j /\ calls[i] = Commit /\ calls[j] = Vs(method, id)

\* C18: after every successful mutation of a stored node the engine calls the
\* matching operation of the embedding index for that node within the same
\* call, after the commit: add for create_node, update for update_node and for
\* each node rename_tag modifies, delete for delete_node.
C18_IndexCalledAfterCommit ==
    [][/\ (last'.op = "create_node" /\ last'.raised = "" /\ nodes' # nodes) =>
            IndexedAfterCommit(last'.calls, "vs.add_node", last'.ret.id)
       /\ (last'.op = "update_node" /\ last'.raised = "") =>
            IndexedAfterCommit(last'.calls, "vs.update_node", last'.ret.id)
       /\ \A id \in NodeIds :
            (last'.op = "delete_node" /\ delete_node(id) /\ id \in DOMAIN nodes) =>
               IndexedAfterCommit(last'.calls, "vs.delete_node", id)
       /\ (last'.op = "rename_tag" /\ last'.raised = "") =>
            \A id \in DOMAIN last'.ret :
               IndexedAfterCommit(last'.calls, "vs.update_node", id)]_vars

\* C20: update_node calls of several callers on one node do not interleave
\* their read-merge-validate-persist sequences: when two callers have updated
\* different fields of a node, both successfully, the stored properties hold
\* both changes.
C20_NoLostUpdate ==
    \A c1 \in Callers, c2 \in Callers :
       (/\ c1 # c2
        /\ txn[c1].pc = "done" /\ txn[c1].raised = ""
        /\ txn[c2].pc = "done" /\ txn[c2].raised = ""
        /\ txn[c1].node_id = txn[c2].node_id
        /\ txn[c1].node_id \in DOMAIN nodes
        /\ DOMAIN txn[c1].properties \cap DOMAIN txn[c2].properties = {}) =>
          \A k \in DOMAIN txn[c1].properties :
             nodes[txn[c1].node_id].properties[k] = DumpValue(txn[c1].properties[k])

\* the call committed and ended without an error
Committed == last'.raised = "" /\ Commit \in Range(last'.calls)

\* C19: while the embedding index raises on every call, create_node,
\* update_node and delete_node still commit their mutation to the store and
\* return their normal result: the created node, the updated node, true.
C19_IndexFailureIsContained ==
    [][~vs_up =>
         /\ \A i \in IndexCreateInputs :
              (/\ last'.op = "create_node"
               /\ create_node(i.node_type, i.properties)
               /\ ~ValidationError(i.node_type, i.properties)) =>
                 /\ Committed
                 /\ DOMAIN nodes' = DOMAIN nodes \cup {last'.ret.id}
                 /\ last'.ret.id \notin DOMAIN nodes
                 /\ nodes'[last'.ret.id] = last'.ret.node
                 /\ last'.ret.node = [type |-> i.node_type,
                                      properties |-> model_dump(i.node_type, i.properties, now)]
         /\ \A id \in NodeIds, p \in IndexUpdateInputs :
              (/\ last'.op = "update_node"
               /\ update_node(id, p)
               /\ id \in DOMAIN nodes
               /\ ~ValidationError(nodes[id].type, DictUpdate(nodes[id].properties, p))) =>
                 /\ Committed
                 /\ last'.ret.id = id
                 /\ nodes'[id] = last'.ret.node
                 /\ \A k \in DOMAIN p \cap FieldNames(PROPERTIES_MODELS[nodes[id].type]) :
                      nodes'[id].properties[k] = DumpValue(p[k])
         /\ \A id \in NodeIds :
              (last'.op = "delete_node" /\ delete_node(id) /\ id \in DOMAIN nodes) =>
                 /\ Committed
                 /\ last'.ret = TRUE
                 /\ id \notin DOMAIN nodes']_vars

\* a node was deleted while the index was failing: it is gone from the store,
\* the caller got true, and the index still holds its id
C19_Witness ==
    /\ ~vs_up
    /\ last.op = "delete_node"
    /\ last.raised = ""
    /\ last.ret = TRUE
    /\ \E id \in index : id \notin DOMAIN nodes


\* C21: under every interleaving of delete_node(n) with create_edge calls of
\* other sessions, no committed state holds an edge whose source or target is
\* not a stored node
C21_NoDanglingEdgeUnderRace ==
    \A e \in DOMAIN edges :
        edges[e].source_id \in DOMAIN nodes /\ edges[e].target_id \in DOMAIN nodes


\* C22: a node's id and type never change after creation: no step changes the
\* type stored under an id, and update_node, rename_tag and the edge operations
\* neither add nor remove an id; update_node returns the id and type it found
C22_IdAndTypeAreFixed ==
    [][ /\ \A id \in DOMAIN nodes \cap DOMAIN nodes' :
              nodes'[id].type = nodes[id].type
        /\ last'.op \in {"update_node", "rename_tag", "create_edge", "update_edge",
                         "delete_edge", "delete_edge_by_nodes"}
              => DOMAIN nodes' = DOMAIN nodes
        /\ \A id \in NodeIds, p \in StoreUpdateInputs :
              (last'.op = "update_node" /\ last'.raised = "" /\ update_node(id, p))
                 => /\ last'.ret.id = id
                    /\ last'.ret.node.type = nodes[id].type ]_vars

\* a rename has rewritten the tags of a Task while an edge was stored
C22_Witness ==
    /\ last.op = "rename_tag"
    /\ \E id \in DOMAIN last.ret :
          /\ nodes[id].type = "Task"
          /\ TagsOf(nodes[id].properties) = {str_b}
    /\ edges # Empty


\* two values that denote the same thing, whatever form a datetime was given in
SameValue(a, b) == a.t = b.t /\ a.s = b.s /\ a.l = b.l /\ a.n = b.n

\* the default the data model documents for a field left out
DocumentedDefault(node_type, k, clock) ==
    CASE k = "status"   -> IF node_type = "Task" THEN Str(s_todo) ELSE Str(s_active)
      [] k = "tags"     -> List(<<>>)
      [] k = "due_date" -> None
      [] k = "metadata" -> EmptyMap
      [] k \in {"created_at", "modified_at"} -> Dt(clock)

\* properties is the input i validated, with the defaults of its type filled in
ValidatedImage(i, clock, properties) ==
    /\ DOMAIN properties = FieldNames(PROPERTIES_MODELS[i.node_type])
    /\ \A k \in DOMAIN properties :
          IF k \in DOMAIN i.properties
            THEN SameValue(properties[k], i.properties[k]) /\ properties[k].c
            ELSE properties[k] = DocumentedDefault(i.node_type, k, clock)

\* C23: round trip: create_node of a valid (type, properties) returns and
\* stores the validated input with the defaults filled in, under a fresh id and
\* the given type; the row stays as stored, and get_nodes_by_ids returns
\* exactly the stored id, type and properties of each id asked for
C23_CreateThenReadRoundTrips ==
    [][ /\ \A i \in RoundCreateInputs :
              (last'.op = "create_node" /\ last'.raised = ""
                 /\ create_node(i.node_type, i.properties))
                 => LET r == last'.ret
                    IN  /\ r.id \notin DOMAIN nodes
                        /\ r.id \in DOMAIN nodes'
                        /\ r.node.type = i.node_type
                        /\ ValidatedImage(i, now, r.node.properties)
                        /\ nodes'[r.id] = r.node
        /\ \A id \in DOMAIN nodes : id \in DOMAIN nodes' /\ nodes'[id] = nodes[id]
        /\ \A node_ids \in SUBSET NodeIds :
              (last'.op = "get_nodes_by_ids" /\ get_nodes_by_ids(node_ids))
                 => LET r == last'.ret
                    IN  /\ {r[j].id : j \in DOMAIN r} = node_ids \cap DOMAIN nodes
                        /\ Len(r) = Cardinality(node_ids \cap DOMAIN nodes)
                        /\ \A j \in DOMAIN r :
                              /\ r[j].type = nodes[r[j].id].type
                              /\ r[j].properties = nodes[r[j].id].properties ]_vars

\* a Task created with everything supplied is read back, after time has
\* passed, beside a node created from the required fields alone
C23_Witness ==
    /\ last.op = "get_nodes_by_ids"
    /\ now > 0
    /\ \E j \in DOMAIN last.ret :
          /\ last.ret[j].type = "Task"
          /\ last.ret[j].properties["due_date"] = Dt(Later)
          /\ last.ret[j].properties["modified_at"] = Dt(0)
    /\ \E j \in DOMAIN last.ret : last.ret[j].properties["tags"] = List(<<>>)


\* the stored nodes of a type that have any of the given tags
WithAnyTag(node_type, tags) ==
    {id \in DOMAIN nodes :
        /\ nodes[id].type = node_type
        /\ TagsOf(nodes[id].properties) \cap Range(tags) # {}}

\* the ids of the dictionaries a listing returned
ReturnedIds(r) == {r[j].id : j \in DOMAIN r}

\* C24: get_persons returns exactly the Person nodes matching its filter: with
\* name given, the persons of that exact name; with tags given, the persons
\* that have any of the tags; with neither, every Person; get_notes filters
\* Note nodes by tags in the same way
C24_ListingsFilterAsDocumented ==
    [][ /\ \A name \in ListNames, tags \in ListTags :
              (last'.op = "get_persons" /\ get_persons(name, tags))
                 => /\ (name.some /\ ~tags.some)
                          => ReturnedIds(last'.ret) =
                               {id \in DOMAIN nodes :
                                   /\ nodes[id].type = "Person"
                                   /\ nodes[id].properties["name"] = Str(name.v)}
                    /\ (tags.some /\ ~name.some)
                          => ReturnedIds(last'.ret) = WithAnyTag("Person", tags.v)
                    /\ (~name.some /\ ~tags.some)
                          => ReturnedIds(last'.ret) =
                               {id \in DOMAIN nodes : nodes[id].type = "Person"}
        /\ \A tags \in ListTags :
              (last'.op = "get_notes" /\ get_notes(tags))
                 => ReturnedIds(last'.ret) =
                      IF tags.some THEN WithAnyTag("Note", tags.v)
                      ELSE {id \in DOMAIN nodes : nodes[id].type = "Note"} ]_vars


\* the node ids the stored edges refer to
Endpoints == UNION {{edges[e].source_id, edges[e].target_id} : e \in DOMAIN edges}

\* C25: in every state reachable by a sequential sequence of create_node,
\* update_node, delete_node, create_edge, update_edge, delete_edge,
\* delete_edge_by_nodes and rename_tag, every stored edge's source_id and
\* target_id are ids of stored nodes
C25_NoDanglingEdge == Endpoints \subseteq DOMAIN nodes

\* a node with a touching edge has been deleted and another edge is still stored
C25_Witness ==
    /\ last.op = "delete_node"
    /\ last.ret = TRUE
    /\ \E i \in DOMAIN last.calls :
          last.calls[i].m = "delete_edges" /\ last.calls[i].n > 0
    /\ edges # Empty


\* C26: at most one stored edge exists for any (source_id, target_id, label)
\* triple, so a triple addresses a unique edge
C26_OneEdgePerTriple ==
    \A e1 \in DOMAIN edges, e2 \in DOMAIN edges :
        (/\ edges[e1].source_id = edges[e2].source_id
         /\ edges[e1].target_id = edges[e2].target_id
         /\ edges[e1].label = edges[e2].label) => e1 = e2


\* C27: every operation that changes a node's stored properties sets the
\* node's modified_at to the time of the change: a successful update_node
\* writes the current time whatever the partial update supplies and never
\* moves modified_at backwards, and rename_tag does so for each node it modifies
C27_ChangeStampsModifiedAt ==
    [][ /\ \A id \in DOMAIN nodes \cap DOMAIN nodes' :
              nodes'[id].properties # nodes[id].properties
                 => /\ nodes'[id].properties["modified_at"] = Dt(now)
                    /\ nodes'[id].properties["modified_at"].n
                          >= nodes[id].properties["modified_at"].n
        /\ (last'.op = "update_node" /\ last'.raised = "")
              => last'.ret.node.properties["modified_at"] = Dt(now) ]_vars


\* C28: while the collection answers every call, after any sequence of
\* create_node, update_node, delete_node and rename_tag the ids held by the
\* embedding index are exactly the ids of the stored nodes
C28_IndexHoldsStoredIds == vs_up => index = DOMAIN nodes

\* a rename has rewritten a node after another node was created and deleted
C28_Witness ==
    /\ vs_up
    /\ last.op = "rename_tag"
    /\ DOMAIN last.ret # {}
    /\ uuid_nodes > Cardinality(DOMAIN nodes)
    /\ index # {}


Unset(opt) == opt = Absent \/ opt = Some(<<>>)

\* C30: an empty filter argument is treated exactly like an absent one:
\* search_nodes with query "" or tags [] returns what it returns with that
\* argument left out (every stored node when both are unset), and
\* get_connected_nodes with label "" returns the nodes within depth over edges
\* of every label
C30_EmptyFilterIsNoFilter ==
    [][ /\ \A query \in FilterQueries, tags \in FilterTags :
              (last'.op = "search_nodes" /\ search_nodes(query, NoType, tags))
                 => /\ (Unset(query) /\ Unset(tags)) => last'.ret = DOMAIN nodes
                    /\ query = Some(<<>>) => last'.ret = SearchResult(Absent, NoType, tags)
                    /\ tags = Some(<<>>) => last'.ret = SearchResult(query, NoType, Absent)
        /\ (bfs'.pc = "done" /\ bfs'.label = Some(<<>>))
              => Range(last'.ret)
                   = Within(bfs'.depth, bfs'.node_id, Absent) \ {bfs'.node_id} ]_vars

\* a traversal with label "" returned a node it reached over a labelled edge
C30_Witness ==
    /\ bfs.pc = "done"
    /\ bfs.label = Some(<<>>)
    /\ last.ret # <<>>
    /\ \A e \in DOMAIN edges : edges[e].label # <<>>

=============================================================================
